---------------------------- MODULE Spec2Model ----------------------------
(***************************************************************************)
(* Incremental HTTP/1.1 request parser of kahvecikaan/httpfromtcp.         *)
(*                                                                         *)
(*   internal/headers/headers.go      Headers: Get, Set, Parse             *)
(*   internal/request/request.go      Request: parseSingle, parse,         *)
(*                                    parseRequestLine, RequestFromReader  *)
(*                                                                         *)
(* A byte is its ASCII code, a Go string or []byte is a sequence of bytes. *)
(* Go indexes from 0, TLA+ sequences from 1: the Go slice s[a:b] is        *)
(* Slice(s, a, b) == SubSeq(s, a + 1, b).                                  *)
(***************************************************************************)
EXTENDS Integers, Sequences, FiniteSets, TLC

(***************************************************************************)
(* Bounds of the model.                                                    *)
(***************************************************************************)
\* the largest number of bytes one Read of the source returns
MaxRead == 3
\* the largest number of body bytes an input stream carries, and the largest
\* Content-Length it declares
MaxBody == 3
\* the largest number of direct parse/parseSingle calls of one parser
MaxCalls == 2

(***************************************************************************)
(* Bytes and byte strings.                                                 *)
(***************************************************************************)
CRLF == <<13, 10>>
SP == 32
COLON == 58
SLASH == 47
COMMA == 44
HYPHEN == 45

\* "HTTP", "1.1" and "content-length", the literals of the request package
strHTTP == <<72, 84, 84, 80>>
str11 == <<49, 46, 49>>
strContentLength == <<99, 111, 110, 116, 101, 110, 116, 45, 108, 101, 110, 103, 116, 104>>
\* ", ", the separator Set joins values with
strJoin == <<44, 32>>

\* Let(v, Body) is Body(v): a value named once, used many times
Let(v, Body(_)) == Body(v)

Min(S) == CHOOSE x \in S : \A y \in S : x <= y

\* Go's s[a:b]
Slice(s, a, b) == SubSeq(s, a + 1, b)

\* Go's s[a:]
SliceFrom(s, a) == SubSeq(s, a + 1, Len(s))

\* bytes.Index / strings.Index: the offset of the first sep in s, or -1
Index(s, sep) ==
    Let({i \in 0..(Len(s) - Len(sep)) : Slice(s, i, i + Len(sep)) = sep}, LAMBDA at :
        IF at = {} THEN -1 ELSE Min(at))

\* Split taking a run of separators for one separator
RECURSIVE Split_squeeze(_, _)
Split_squeeze(s, c) ==
    Let(Index(s, <<c>>), LAMBDA i :
        IF i = -1 THEN <<s>>
        ELSE IF i + 1 < Len(s) /\ s[i + 2] = c
        THEN Split_squeeze(Slice(s, 0, i) \o SliceFrom(s, i + 1), c)
        ELSE <<Slice(s, 0, i)>> \o Split_squeeze(SliceFrom(s, i + 1), c))

\* bytes.Split / strings.Split on a one-byte separator: every piece between
\* two separators, empty pieces included
RECURSIVE Split(_, _)
Split(s, c) ==
    Let(Index(s, <<c>>), LAMBDA i :
        IF i = -1 THEN <<s>>
        ELSE <<Slice(s, 0, i)>> \o Split(SliceFrom(s, i + 1), c))

\* bytes.SplitN(s, sep, 2): cut at the first separator only
SplitN2(s, c) ==
    Let(Index(s, <<c>>), LAMBDA i :
        IF i = -1 THEN <<s>> ELSE <<Slice(s, 0, i), SliceFrom(s, i + 1)>>)

\* bytes.HasSuffix
HasSuffix(s, suf) ==
    /\ Len(s) >= Len(suf)
    /\ SliceFrom(s, Len(s) - Len(suf)) = suf

\* strings.Contains for a one-byte substring
Contains(s, c) == \E i \in 1..Len(s) : s[i] = c

\* unicode.IsSpace on an ASCII byte: \t \n \v \f \r and space
IsSpace(b) == b \in {9, 10, 11, 12, 13, 32}

\* bytes.TrimSpace: drop the leading and the trailing white space
TrimSpace(s) ==
    Let({i \in 1..Len(s) : \A k \in 1..i : IsSpace(s[k])}, LAMBDA leading :
    Let({i \in 1..Len(s) : \A k \in i..Len(s) : IsSpace(s[k])}, LAMBDA trailing :
        SubSeq(s, Cardinality(leading) + 1, Len(s) - Cardinality(trailing))))

\* strings.ToLower on ASCII
ToLower(s) == [i \in 1..Len(s) |-> IF s[i] >= 65 /\ s[i] <= 90 THEN s[i] + 32 ELSE s[i]]

(***************************************************************************)
(* package headers                                                         *)
(***************************************************************************)
\* NewHeaders: the empty map
NewHeaders == [k \in {} |-> <<>>]

\* Get looking the key up as it is written
Get_exact(h, key) == IF key \in DOMAIN h THEN h[key] ELSE <<>>

\* Headers.Get: a missing key reads as the empty string
Get(h, key) ==
    Let(ToLower(key), LAMBDA k : IF k \in DOMAIN h THEN h[k] ELSE <<>>)

\* Set replacing the value of a repeated key
Set_overwrite(h, key, value) ==
    Let(ToLower(key), LAMBDA k :
        [x \in DOMAIN h \cup {k} |-> IF x = k THEN value ELSE h[x]])

\* Headers.Set: a repeated key joins the new value to the old one
Set(h, key, value) ==
    Let(ToLower(key), LAMBDA k :
        IF k \in DOMAIN h
        THEN [h EXCEPT ![k] = h[k] \o strJoin \o value]
        ELSE [x \in DOMAIN h \cup {k} |-> IF x = k THEN value ELSE h[x]])

\* every printable byte taken for a token character
isValidTokenChar_printable(char) == char > 32 /\ char < 127

isValidTokenChar(char) ==
    \/ (char >= 97 /\ char <= 122) \/ (char >= 65 /\ char <= 90)
    \/ (char >= 48 /\ char <= 57)
    \/ char \in {33, 35, 36, 37, 38, 39, 42, 43, 45, 46, 94, 95, 96, 124, 126}

\* validateFieldName: "nil" or the error
validateFieldName(name) ==
    IF Len(name) = 0 THEN "field name cannot be empty"
    ELSE IF \E i \in 1..Len(name) : ~isValidTokenChar(name[i])
         THEN "invalid character in field name"
         ELSE "nil"

\* parseHeader cutting the line at its last colon
parseHeader_lastColon(fieldLine) ==
    Let({i \in 1..Len(fieldLine) : fieldLine[i] = COLON}, LAMBDA at :
        IF at = {}
        THEN [name |-> <<>>, value |-> <<>>, err |-> "malformed header"]
        ELSE Let(CHOOSE c \in at : \A d \in at : d <= c, LAMBDA c :
             IF HasSuffix(SubSeq(fieldLine, 1, c - 1), <<SP>>)
             THEN [name |-> <<>>, value |-> <<>>,
                   err |-> "invalid spacing: space before colon"]
             ELSE Let(ToLower(TrimSpace(SubSeq(fieldLine, 1, c - 1))), LAMBDA name :
                  Let(validateFieldName(name), LAMBDA e :
                      IF e # "nil" THEN [name |-> <<>>, value |-> <<>>, err |-> e]
                      ELSE [name |-> name,
                            value |-> TrimSpace(SubSeq(fieldLine, c + 1, Len(fieldLine))),
                            err |-> "nil"]))))

\* parseHeader: (name, value, err)
parseHeader(fieldLine) ==
    Let(SplitN2(fieldLine, COLON), LAMBDA parts :
        IF Len(parts) # 2
        THEN [name |-> <<>>, value |-> <<>>, err |-> "malformed header"]
        ELSE IF HasSuffix(parts[1], <<SP>>)
        THEN [name |-> <<>>, value |-> <<>>,
              err |-> "invalid spacing: space before colon"]
        ELSE Let(ToLower(TrimSpace(parts[1])), LAMBDA name :
             Let(validateFieldName(name), LAMBDA e :
                 IF e # "nil" THEN [name |-> <<>>, value |-> <<>>, err |-> e]
                 ELSE [name |-> name, value |-> TrimSpace(parts[2]), err |-> "nil"])))

\* Headers.Parse taking a bare LF for the line terminator
HeadersParse_bareLF(h, data) ==
    Let(Index(data, <<10>>), LAMBDA readIdx :
        IF readIdx = 0
        THEN [n |-> 1, done |-> TRUE, err |-> "nil", h |-> h]
        ELSE IF readIdx = -1
        THEN [n |-> 0, done |-> FALSE, err |-> "nil", h |-> h]
        ELSE Let(parseHeader(Slice(data, 0, readIdx)), LAMBDA p :
                 IF p.err # "nil"
                 THEN [n |-> 0, done |-> FALSE, err |-> p.err, h |-> h]
                 ELSE [n |-> readIdx + 1, done |-> FALSE, err |-> "nil",
                       h |-> Set(h, p.name, p.value)]))

\* Headers.Parse taking the whole buffer at the blank line
HeadersParse_swallow(h, data) ==
    Let(Index(data, CRLF), LAMBDA readIdx :
        IF readIdx = 0
        THEN [n |-> Len(data), done |-> TRUE, err |-> "nil", h |-> h]
        ELSE IF readIdx = -1
        THEN [n |-> 0, done |-> FALSE, err |-> "nil", h |-> h]
        ELSE Let(parseHeader(Slice(data, 0, readIdx)), LAMBDA p :
                 IF p.err # "nil"
                 THEN [n |-> 0, done |-> FALSE, err |-> p.err, h |-> h]
                 ELSE [n |-> readIdx + Len(CRLF), done |-> FALSE, err |-> "nil",
                       h |-> Set(h, p.name, p.value)]))

\* Headers.Parse reporting a rejected line as consumed
HeadersParse_errConsumes(h, data) ==
    Let(Index(data, CRLF), LAMBDA readIdx :
        IF readIdx = 0
        THEN [n |-> Len(CRLF), done |-> TRUE, err |-> "nil", h |-> h]
        ELSE IF readIdx = -1
        THEN [n |-> 0, done |-> FALSE, err |-> "nil", h |-> h]
        ELSE Let(parseHeader(Slice(data, 0, readIdx)), LAMBDA p :
                 IF p.err # "nil"
                 THEN [n |-> readIdx + Len(CRLF), done |-> FALSE, err |-> p.err, h |-> h]
                 ELSE [n |-> readIdx + Len(CRLF), done |-> FALSE, err |-> "nil",
                       h |-> Set(h, p.name, p.value)]))

\* Headers.Parse: (n, done, err) and the map as the call leaves it
HeadersParse(h, data) ==
    Let(Index(data, CRLF), LAMBDA readIdx :
        IF readIdx = 0
        THEN [n |-> Len(CRLF), done |-> TRUE, err |-> "nil", h |-> h]
        ELSE IF readIdx = -1
        THEN [n |-> 0, done |-> FALSE, err |-> "nil", h |-> h]
        ELSE Let(parseHeader(Slice(data, 0, readIdx)), LAMBDA p :
                 IF p.err # "nil"
                 THEN [n |-> 0, done |-> FALSE, err |-> p.err, h |-> h]
                 ELSE [n |-> readIdx + Len(CRLF), done |-> FALSE, err |-> "nil",
                       h |-> Set(h, p.name, p.value)]))

(***************************************************************************)
(* package request                                                         *)
(***************************************************************************)
StateInitialized == 0
StateHeaders == 1
StateBody == 2
StateDone == 3

bufferSize == 1024
MaxContentLength == 10 * 1024 * 1024

\* a []byte that is nil, and append, which leaves a slice it adds nothing to
\* as it was (nil stays nil)
NilBytes == [isNil |-> TRUE, b |-> <<>>]

appendBytes(s, data) ==
    IF Len(data) = 0 THEN s ELSE [isNil |-> FALSE, b |-> s.b \o data]

\* the zero RequestLine
ZeroRequestLine == [HttpVersion |-> <<>>, RequestTarget |-> <<>>, Method |-> <<>>]

NewRequest ==
    [RequestLine |-> ZeroRequestLine, Headers |-> NewHeaders,
     Body |-> NilBytes, state |-> StateInitialized]

\* Decimal numbers as digit sequences without leading zeros (zero is <<>>):
\* an int64 does not fit the integers of the model checker.
RECURSIVE StripZeros(_)
StripZeros(d) == IF d # <<>> /\ d[1] = 0 THEN StripZeros(Tail(d)) ELSE d

DecLess(a, b) ==
    \/ Len(a) < Len(b)
    \/ /\ Len(a) = Len(b)
       /\ \E i \in 1..Len(a) : a[i] < b[i] /\ \A j \in 1..(i - 1) : a[j] = b[j]

RECURSIVE DecVal(_)
DecVal(d) == IF d = <<>> THEN 0 ELSE 10 * DecVal(SubSeq(d, 1, Len(d) - 1)) + d[Len(d)]

RECURSIVE Digits(_)
Digits(n) == IF n = 0 THEN <<>> ELSE Digits(n \div 10) \o <<n % 10>>

\* 1 << 63
Int64Cutoff == <<9, 2, 2, 3, 3, 7, 2, 0, 3, 6, 8, 5, 4, 7, 7, 5, 8, 0, 8>>

\* strconv.ParseInt(s, 10, 64): an optional sign, then one or more decimal
\* digits; a value outside int64 is an error as well. The value is its sign
\* and its magnitude.
ParseInt(s) ==
    Let(IF s # <<>> /\ s[1] \in {43, 45} THEN Tail(s) ELSE s, LAMBDA ds :
    Let(s # <<>> /\ s[1] = 45, LAMBDA neg :
        IF ds = <<>> \/ \E i \in 1..Len(ds) : ds[i] < 48 \/ ds[i] > 57
        THEN [err |-> TRUE, neg |-> FALSE, mag |-> <<>>]
        ELSE Let(StripZeros([i \in 1..Len(ds) |-> ds[i] - 48]), LAMBDA mag :
                 IF (IF neg THEN DecLess(Int64Cutoff, mag) ELSE ~DecLess(mag, Int64Cutoff))
                 THEN [err |-> TRUE, neg |-> FALSE, mag |-> <<>>]
                 ELSE [err |-> FALSE, neg |-> neg, mag |-> mag])))

\* getAndValidateContentLength without the test for a comma
getAndValidateContentLength_noComma(r) ==
    Let(Get(r.Headers, strContentLength), LAMBDA contentLengthStr :
        IF contentLengthStr = <<>> THEN [cl |-> 0, err |-> "nil"]
        ELSE Let(ParseInt(contentLengthStr), LAMBDA v :
                 IF v.err THEN [cl |-> 0, err |-> "ErrInvalidContentLength"]
                 ELSE IF v.neg /\ v.mag # <<>>
                 THEN [cl |-> 0, err |-> "ErrInvalidContentLength: negative value"]
                 ELSE IF DecLess(Digits(MaxContentLength), v.mag)
                 THEN [cl |-> 0, err |-> "ErrContentLengthTooLarge"]
                 ELSE [cl |-> DecVal(v.mag), err |-> "nil"]))

\* Request.getAndValidateContentLength: (contentLength, err)
getAndValidateContentLength(r) ==
    Let(Get(r.Headers, strContentLength), LAMBDA contentLengthStr :
        IF contentLengthStr = <<>> THEN [cl |-> 0, err |-> "nil"]
        ELSE IF Contains(contentLengthStr, COMMA)
        THEN [cl |-> 0, err |-> "ErrMultipleContentLength"]
        ELSE Let(ParseInt(contentLengthStr), LAMBDA v :
                 IF v.err THEN [cl |-> 0, err |-> "ErrInvalidContentLength"]
                 ELSE IF v.neg /\ v.mag # <<>>
                 THEN [cl |-> 0, err |-> "ErrInvalidContentLength: negative value"]
                 ELSE IF DecLess(Digits(MaxContentLength), v.mag)
                 THEN [cl |-> 0, err |-> "ErrContentLengthTooLarge"]
                 ELSE [cl |-> DecVal(v.mag), err |-> "nil"]))

\* validateMethod taking lower-case letters as well
validateMethod_anyCase(method) ==
    IF Len(method) = 0 THEN "ErrInvalidMethod"
    ELSE IF \E i \in 1..Len(method) :
                ~((method[i] >= 65 /\ method[i] <= 90) \/ method[i] = HYPHEN
                  \/ (method[i] >= 97 /\ method[i] <= 122))
         THEN "ErrInvalidMethod"
         ELSE "nil"

validateMethod(method) ==
    IF Len(method) = 0 THEN "ErrInvalidMethod"
    ELSE IF \E i \in 1..Len(method) :
                ~((method[i] >= 65 /\ method[i] <= 90) \/ method[i] = HYPHEN)
         THEN "ErrInvalidMethod"
         ELSE "nil"

\* validateHttpVersion taking every version after HTTP/
validateHttpVersion_anyVersion(version) ==
    Let(Split(version, SLASH), LAMBDA parts :
        IF Len(parts) # 2 THEN "ErrInvalidHttpFormat"
        ELSE IF parts[1] # strHTTP THEN "ErrInvalidHttpFormat"
        ELSE "nil")

validateHttpVersion(version) ==
    Let(Split(version, SLASH), LAMBDA parts :
        IF Len(parts) # 2 THEN "ErrInvalidHttpFormat"
        ELSE IF parts[1] # strHTTP THEN "ErrInvalidHttpFormat"
        ELSE IF parts[2] # str11 THEN "ErrUnsupportedHttpVer"
        ELSE "nil")

\* parseRequestLine reporting the whole buffer as consumed
parseRequestLine_wholeBuffer(data) ==
    Let(Index(data, CRLF), LAMBDA idx :
        IF idx = -1 THEN [rl |-> ZeroRequestLine, n |-> 0, err |-> "nil"]
        ELSE Let(Split(Slice(data, 0, idx), SP), LAMBDA parts :
             IF Len(parts) # 3
             THEN [rl |-> ZeroRequestLine, n |-> 0, err |-> "ErrMalformedReqLine"]
             ELSE Let(validateMethod(parts[1]), LAMBDA errMethod :
                  IF errMethod # "nil"
                  THEN [rl |-> ZeroRequestLine, n |-> 0, err |-> errMethod]
                  ELSE Let(validateHttpVersion(parts[3]), LAMBDA errVersion :
                       IF errVersion # "nil"
                       THEN [rl |-> ZeroRequestLine, n |-> 0, err |-> errVersion]
                       ELSE [rl |-> [Method |-> parts[1], RequestTarget |-> parts[2],
                                     HttpVersion |-> Split(parts[3], SLASH)[2]],
                             n |-> Len(data), err |-> "nil"]))))

\* parseRequestLine: (rl, bytesConsumed, err); rl is ZeroRequestLine for nil
parseRequestLine(data) ==
    Let(Index(data, CRLF), LAMBDA idx :
        IF idx = -1 THEN [rl |-> ZeroRequestLine, n |-> 0, err |-> "nil"]
        ELSE Let(Split(Slice(data, 0, idx), SP), LAMBDA parts :
             IF Len(parts) # 3
             THEN [rl |-> ZeroRequestLine, n |-> 0, err |-> "ErrMalformedReqLine"]
             ELSE Let(validateMethod(parts[1]), LAMBDA errMethod :
                  IF errMethod # "nil"
                  THEN [rl |-> ZeroRequestLine, n |-> 0, err |-> errMethod]
                  ELSE Let(validateHttpVersion(parts[3]), LAMBDA errVersion :
                       IF errVersion # "nil"
                       THEN [rl |-> ZeroRequestLine, n |-> 0, err |-> errVersion]
                       ELSE [rl |-> [Method |-> parts[1], RequestTarget |-> parts[2],
                                     HttpVersion |-> Split(parts[3], SLASH)[2]],
                             n |-> idx + Len(CRLF), err |-> "nil"]))))

\* parseSingle in StateInitialized storing the request line and staying in
\* StateInitialized
parseSingleInitialized_noTransition(r, data) ==
    Let(parseRequestLine(data), LAMBDA p :
        IF p.err # "nil" THEN [r |-> r, n |-> 0, err |-> p.err]
        ELSE IF p.n = 0 THEN [r |-> r, n |-> 0, err |-> "nil"]
        ELSE [r |-> [r EXCEPT !.RequestLine = p.rl], n |-> p.n, err |-> "nil"])

\* Request.parseSingle, state StateInitialized
parseSingleInitialized(r, data) ==
    Let(parseRequestLine(data), LAMBDA p :
        IF p.err # "nil" THEN [r |-> r, n |-> 0, err |-> p.err]
        ELSE IF p.n = 0 THEN [r |-> r, n |-> 0, err |-> "nil"]
        ELSE [r |-> [r EXCEPT !.RequestLine = p.rl, !.state = StateHeaders],
              n |-> p.n, err |-> "nil"])

\* parseSingle in StateHeaders leaving for StateDone at the blank line
parseSingleHeaders_toDone(r, data) ==
    Let(HeadersParse(r.Headers, data), LAMBDA p :
        IF p.err # "nil" THEN [r |-> r, n |-> 0, err |-> p.err]
        ELSE [r |-> [r EXCEPT !.Headers = p.h,
                              !.state = IF p.done THEN StateDone ELSE @],
              n |-> p.n, err |-> "nil"])

\* parseSingle in StateHeaders rejecting a header section without a line
parseSingleHeaders_needsHeader(r, data) ==
    Let(HeadersParse(r.Headers, data), LAMBDA p :
        IF p.err # "nil" THEN [r |-> r, n |-> 0, err |-> p.err]
        ELSE IF p.done /\ r.Headers = NewHeaders
        THEN [r |-> r, n |-> 0, err |-> "malformed header"]
        ELSE [r |-> [r EXCEPT !.Headers = p.h,
                              !.state = IF p.done THEN StateBody ELSE @],
              n |-> p.n, err |-> "nil"])

\* Request.parseSingle, state StateHeaders
parseSingleHeaders(r, data) ==
    Let(HeadersParse(r.Headers, data), LAMBDA p :
        IF p.err # "nil" THEN [r |-> r, n |-> 0, err |-> p.err]
        ELSE [r |-> [r EXCEPT !.Headers = p.h,
                              !.state = IF p.done THEN StateBody ELSE @],
              n |-> p.n, err |-> "nil"])

\* the body taken for complete only once it is too long
bodyComplete_late(n, contentLength) == n > contentLength

\* the body is complete: int64(len(r.Body)) == contentLength
bodyComplete(n, contentLength) == n = contentLength

\* parseSingle in StateBody without the shortcut for no content length
parseSingleBody_noShortcut(r, data) ==
    Let(getAndValidateContentLength(r), LAMBDA c :
        IF c.err # "nil" THEN [r |-> r, n |-> 0, err |-> c.err]
        ELSE Let(appendBytes(r.Body, data), LAMBDA body :
                 IF Len(body.b) > c.cl
                 THEN [r |-> [r EXCEPT !.Body = body], n |-> 0,
                       err |-> "ErrBodyExceedsContentLength"]
                 ELSE [r |-> [r EXCEPT !.Body = body,
                                       !.state = IF bodyComplete(Len(body.b), c.cl)
                                                 THEN StateDone ELSE @],
                       n |-> Len(data), err |-> "nil"]))

\* parseSingle in StateBody without the test for a body that is too long
parseSingleBody_noLimit(r, data) ==
    Let(getAndValidateContentLength(r), LAMBDA c :
        IF c.err # "nil" THEN [r |-> r, n |-> 0, err |-> c.err]
        ELSE IF c.cl = 0
        THEN [r |-> [r EXCEPT !.state = StateDone], n |-> 0, err |-> "nil"]
        ELSE Let(appendBytes(r.Body, data), LAMBDA body :
                 [r |-> [r EXCEPT !.Body = body,
                                  !.state = IF bodyComplete(Len(body.b), c.cl)
                                            THEN StateDone ELSE @],
                  n |-> Len(data), err |-> "nil"]))

\* parseSingle in StateBody emptying the header collection when the body is
\* complete
parseSingleBody_clearsHeaders(r, data) ==
    Let(getAndValidateContentLength(r), LAMBDA c :
        IF c.err # "nil" THEN [r |-> r, n |-> 0, err |-> c.err]
        ELSE IF c.cl = 0
        THEN [r |-> [r EXCEPT !.state = StateDone], n |-> 0, err |-> "nil"]
        ELSE Let(appendBytes(r.Body, data), LAMBDA body :
                 IF Len(body.b) > c.cl
                 THEN [r |-> [r EXCEPT !.Body = body], n |-> 0,
                       err |-> "ErrBodyExceedsContentLength"]
                 ELSE IF bodyComplete(Len(body.b), c.cl)
                 THEN [r |-> [r EXCEPT !.Body = body, !.state = StateDone,
                                       !.Headers = NewHeaders],
                       n |-> Len(data), err |-> "nil"]
                 ELSE [r |-> [r EXCEPT !.Body = body], n |-> Len(data), err |-> "nil"]))

\* Request.parseSingle, state StateBody
parseSingleBody(r, data) ==
    Let(getAndValidateContentLength(r), LAMBDA c :
        IF c.err # "nil" THEN [r |-> r, n |-> 0, err |-> c.err]
        ELSE IF c.cl = 0
        THEN [r |-> [r EXCEPT !.state = StateDone], n |-> 0, err |-> "nil"]
        ELSE Let(appendBytes(r.Body, data), LAMBDA body :
                 IF Len(body.b) > c.cl
                 THEN [r |-> [r EXCEPT !.Body = body], n |-> 0,
                       err |-> "ErrBodyExceedsContentLength"]
                 ELSE [r |-> [r EXCEPT !.Body = body,
                                       !.state = IF bodyComplete(Len(body.b), c.cl)
                                                 THEN StateDone ELSE @],
                       n |-> Len(data), err |-> "nil"]))

\* parseSingle returning no error in StateDone
parseSingle_doneSilent(r, data) ==
    CASE r.state = StateInitialized -> parseSingleInitialized(r, data)
      [] r.state = StateHeaders -> parseSingleHeaders(r, data)
      [] r.state = StateBody -> parseSingleBody(r, data)
      [] OTHER -> [r |-> r, n |-> 0, err |-> "nil"]

\* Request.parseSingle: (n, err) and the Request as the call leaves it
parseSingle(r, data) ==
    CASE r.state = StateInitialized -> parseSingleInitialized(r, data)
      [] r.state = StateHeaders -> parseSingleHeaders(r, data)
      [] r.state = StateBody -> parseSingleBody(r, data)
      [] r.state = StateDone -> [r |-> r, n |-> 0, err |-> "ErrParserDone"]
      [] OTHER -> [r |-> r, n |-> 0, err |-> "ErrUnknownState"]

\* parse making one parseSingle call only
parseLoop_once(r, data, totalBytesParsed, calls) ==
    IF r.state = StateDone
    THEN [r |-> r, n |-> totalBytesParsed, err |-> "nil", calls |-> calls]
    ELSE Let(parseSingle(r, SliceFrom(data, totalBytesParsed)), LAMBDA s :
             [r |-> s.r,
              n |-> IF s.err # "nil" THEN totalBytesParsed ELSE totalBytesParsed + s.n,
              err |-> s.err,
              calls |-> calls \o <<[before |-> r, data |-> SliceFrom(data, totalBytesParsed),
                                    n |-> s.n, err |-> s.err, after |-> s.r]>>])

\* parse calling parseSingle once more after a call that consumed nothing
RECURSIVE parseLoop_retries(_, _, _, _)
parseLoop_retries(r, data, totalBytesParsed, calls) ==
    IF r.state = StateDone
    THEN [r |-> r, n |-> totalBytesParsed, err |-> "nil", calls |-> calls]
    ELSE Let(parseSingle(r, SliceFrom(data, totalBytesParsed)), LAMBDA s :
         Let(calls \o <<[before |-> r, data |-> SliceFrom(data, totalBytesParsed),
                         n |-> s.n, err |-> s.err, after |-> s.r]>>, LAMBDA made :
             IF s.err # "nil"
             THEN [r |-> s.r, n |-> totalBytesParsed, err |-> s.err, calls |-> made]
             ELSE IF s.n = 0 /\ calls # <<>> /\ calls[Len(calls)].n = 0
             THEN [r |-> s.r, n |-> totalBytesParsed, err |-> "nil", calls |-> made]
             ELSE parseLoop_retries(s.r, data, totalBytesParsed + s.n, made)))

\* Request.parse: the loop over parseSingle. calls lists the parseSingle calls
\* it made: the Request before, the slice offered, and what the call returned.
RECURSIVE parseLoop(_, _, _, _)
parseLoop(r, data, totalBytesParsed, calls) ==
    IF r.state = StateDone
    THEN [r |-> r, n |-> totalBytesParsed, err |-> "nil", calls |-> calls]
    ELSE Let(parseSingle(r, SliceFrom(data, totalBytesParsed)), LAMBDA s :
         Let(calls \o <<[before |-> r, data |-> SliceFrom(data, totalBytesParsed),
                         n |-> s.n, err |-> s.err, after |-> s.r]>>, LAMBDA made :
             IF s.err # "nil"
             THEN [r |-> s.r, n |-> totalBytesParsed, err |-> s.err, calls |-> made]
             ELSE IF s.n = 0
             THEN [r |-> s.r, n |-> totalBytesParsed, err |-> "nil", calls |-> made]
             ELSE parseLoop(s.r, data, totalBytesParsed + s.n, made)))

parse(r, data) == parseLoop(r, data, 0, <<>>)

(***************************************************************************)
(* The buffer of RequestFromReader. make([]byte, n) is n zero bytes; the   *)
(* model keeps the length of buf in bufLen and its bytes in buf without    *)
(* the zero bytes at its end, so a buffer of 1024 bytes has one            *)
(* representation, and a short one.                                        *)
(***************************************************************************)
RECURSIVE Norm(_)
Norm(s) == IF s # <<>> /\ s[Len(s)] = 0 THEN Norm(SubSeq(s, 1, Len(s) - 1)) ELSE s

\* buf[a:b]
BufSlice(b, lo, hi) ==
    <<>> \o [i \in 1..(hi - lo) |-> IF lo + i <= Len(b) THEN b[lo + i] ELSE 0]

\* copy(buf[off:], bytes), for bytes that fit
BufCopy(b, off, bytes) ==
    Let(IF Len(b) > off + Len(bytes) THEN Len(b) ELSE off + Len(bytes), LAMBDA top :
        Norm(<<>> \o [i \in 1..top |->
                         IF i > off /\ i <= off + Len(bytes) THEN bytes[i - off]
                         ELSE IF i <= Len(b) THEN b[i] ELSE 0]))

(***************************************************************************)
(* The input streams: a request line, a header section, the blank line and *)
(* body bytes, and every prefix of such a message (the source runs dry     *)
(* there).                                                                 *)
(***************************************************************************)
\* "A / HTTP/1.1\r\n"
lineOK == <<65, 32, 47, 32>> \o strHTTP \o <<SLASH>> \o str11 \o CRLF
\* "A /\r\n": two fields
lineShort == <<65, 32, 47>> \o CRLF
\* "Content-Length: " v "\r\n"
hdrCL(v) == <<67>> \o SubSeq(strContentLength, 2, 8) \o <<76>>
            \o SubSeq(strContentLength, 10, 14) \o <<COLON, SP>> \o v \o CRLF
\* the decimal digits of n, as text
Dec(n) == IF n = 0 THEN <<48>> ELSE [i \in 1..Len(Digits(n)) |-> Digits(n)[i] + 48]
\* "h: v\r\n"
hdrHV == <<104, COLON, SP, 118>> \o CRLF
\* "x\r\n": no colon
hdrNoColon == <<120>> \o CRLF

HeaderSections ==
    {<<>>, hdrHV, hdrNoColon, hdrCL(<<120>>), hdrCL(<<49>>) \o hdrCL(<<49>>)}
    \cup {hdrCL(Dec(n)) : n \in 0..MaxBody}
    \cup {hdrHV \o hdrCL(Dec(n)) : n \in 1..MaxBody}

\* "content-length: " v "\r\n"
hdrCLlower(v) == strContentLength \o <<COLON, SP>> \o v \o CRLF

\* decimal digits as text
Text(d) == [i \in 1..Len(d) |-> d[i] + 48]

\* header sections with two or more Content-Length lines: equal values,
\* different values, names in different case, a value that is no number,
\* empty values, three lines with another header between them
MultipleSections ==
    {hdrCL(<<49>>) \o hdrCL(<<49>>),
     hdrCL(<<49>>) \o hdrCL(<<50>>),
     hdrCLlower(<<50>>) \o hdrCL(<<49>>),
     hdrCL(<<120>>) \o hdrCL(<<49>>),
     hdrCL(<<>>) \o hdrCL(<<>>),
     hdrCL(<<49>>) \o hdrHV \o hdrCL(<<49>>) \o hdrCL(<<49>>)}

\* one Content-Length line whose value is no number: "x", "-1", "1x", ""
InvalidSections == {hdrCL(<<120>>), hdrCL(<<HYPHEN, 49>>), hdrCL(<<49, 120>>), hdrCL(<<>>)}

\* one Content-Length line with a large value: MaxContentLength, one more,
\* 999999999999, the largest int64 and one more
LargeValues ==
    {Text(Digits(MaxContentLength)), Text(Digits(MaxContentLength + 1)),
     [i \in 1..12 |-> 57],
     Text([Int64Cutoff EXCEPT ![19] = 7]), Text(Int64Cutoff)}

LargeSections == {hdrCL(v) : v \in LargeValues}

\* the first n bytes of "a\r\nbcd..."
BodyOf(n) == [i \in 1..n |-> IF i = 2 THEN 13 ELSE IF i = 3 THEN 10 ELSE 96 + (i % 26)]

Messages ==
    {lineOK \o hs \o CRLF \o BodyOf(n) : hs \in HeaderSections, n \in 0..MaxBody}
    \cup {lineShort \o CRLF}
    \cup {lineOK \o hs \o CRLF \o BodyOf(1) :
              hs \in MultipleSections \cup InvalidSections \cup LargeSections}

Streams == UNION {{SubSeq(m, 1, k) : k \in 0..Len(m)} : m \in Messages}

VARIABLES
    reader,     \* the source: its data, how far it was read, how it ends
    buf,        \* RequestFromReader's buf (without its trailing zero bytes)
    bufLen,     \* len(buf)
    readToIdx,  \* RequestFromReader's readToIdx
    req,        \* the Request
    pc,         \* "loop": at the top of RequestFromReader's loop; "return":
                \* RequestFromReader has returned; "caller": the Request is
                \* driven by direct parse and parseSingle calls
    ret,        \* what RequestFromReader returned: (req is nil, err)
    consumed,   \* the bytes parse has reported consumed, in order
    last,       \* the last operation: its argument, the Request before it,
                \* what it returned and the parseSingle calls it made
    ncalls,     \* the direct calls made so far
    hist,       \* for each header name given to Set or read by Headers.Parse
                \* from a field line, in lower case: the values, in order
    sessions    \* with two RequestFromReader calls under way: which call the
                \* variables above belong to, the locals of the other call,
                \* and the header maps that NewHeaders has made

vars ==
    <<reader, buf, bufLen, readToIdx, req, pc, ret, consumed, last, ncalls, hist,
      sessions>>

NoOp == [op |-> "none", data |-> <<>>, before |-> NewRequest, n |-> 0,
         err |-> "nil", calls |-> <<>>]

NoRet == [isNil |-> TRUE, err |-> "none"]

NoHist == [k \in {} |-> <<>>]

\* one RequestFromReader call, or none, under way
NoSessions == [id |-> 0, hdr |-> 0, maps |-> <<>>, other |-> <<>>]

\* the bytes the source has delivered so far
Delivered == SubSeq(reader.data, 1, reader.pos)

(***************************************************************************)
(* RequestFromReader. One action is one iteration of its loop, for one     *)
(* outcome of reader.Read; the loop condition is evaluated at its end.     *)
(***************************************************************************)
Init ==
    /\ reader \in [data : Streams, pos : {0}, atEnd : {"io.EOF", "error"}]
    /\ buf = <<>>
    /\ bufLen = bufferSize
    /\ readToIdx = 0
    /\ req = NewRequest
    /\ pc = "loop"
    /\ ret = NoRet
    /\ consumed = <<>>
    /\ last = NoOp
    /\ ncalls = 0
    /\ hist = NoHist
    /\ sessions = NoSessions

\* len(buf) once the buffer was doubled when full
Grown == IF readToIdx >= bufLen THEN bufLen * 2 ELSE bufLen

\* a buffer of twice the length that was made and never filled
newBuf_blank(b, length) == <<>>

\* newBuf := make([]byte, len(buf)*2); copy(newBuf, buf)
newBuf(b, length) == BufCopy(<<>>, 0, BufSlice(b, 0, length))

\* buf once the buffer was doubled when full
GrownBuf == IF readToIdx >= bufLen THEN newBuf(buf, bufLen) ELSE buf

\* chunkReader.Read(p) with numBytesPerRead = k: the bytes it copies into p
ReadBytes(k, lenP) ==
    Let(Min({k, lenP, Len(reader.data) - reader.pos}), LAMBDA n :
        SubSeq(reader.data, reader.pos + 1, reader.pos + n))

\* the loop without the copy that moves the rest to the front
Compact_none(filled, bytesConsumed, idx) == filled

\* copy(buf, buf[bytesConsumed:readToIdx]): the rest moves to the front
Compact(filled, bytesConsumed, idx) ==
    BufCopy(filled, 0, BufSlice(filled, bytesConsumed, idx))

\* the iteration going on to the next read after an error of parse
AfterRead_skipsError(filled, idx, p) ==
    /\ req' = p.r
    /\ bufLen' = Grown
    /\ last' = [op |-> "RequestFromReader", data |-> BufSlice(filled, 0, idx),
                before |-> req, n |-> p.n, err |-> p.err, calls |-> p.calls]
    /\ buf' = IF p.n > 0 THEN Compact(filled, p.n, idx) ELSE filled
    /\ readToIdx' = IF p.n > 0 THEN idx - p.n ELSE idx
    /\ consumed' = consumed \o BufSlice(filled, 0, p.n)
    /\ pc' = IF p.r.state = StateDone THEN "return" ELSE "loop"
    /\ ret' = IF p.r.state = StateDone
              THEN [isNil |-> FALSE, err |-> "nil"] ELSE ret

\* the iteration going back to the top of the loop although the parser is
\* in StateDone
AfterRead_loopsOn(filled, idx, p) ==
    /\ req' = p.r
    /\ bufLen' = Grown
    /\ last' = [op |-> "RequestFromReader", data |-> BufSlice(filled, 0, idx),
                before |-> req, n |-> p.n, err |-> p.err, calls |-> p.calls]
    /\ IF p.err # "nil"
       THEN /\ buf' = filled
            /\ readToIdx' = idx
            /\ consumed' = consumed
            /\ pc' = "return"
            /\ ret' = [isNil |-> TRUE, err |-> p.err]
       ELSE /\ buf' = IF p.n > 0 THEN Compact(filled, p.n, idx) ELSE filled
            /\ readToIdx' = IF p.n > 0 THEN idx - p.n ELSE idx
            /\ consumed' = consumed \o BufSlice(filled, 0, p.n)
            /\ pc' = "loop"
            /\ ret' = ret

\* the iteration from readToIdx += n on: filled is buf with the bytes read,
\* idx the new readToIdx, p what parse(buf[:readToIdx]) returns
AfterRead(filled, idx, p) ==
    /\ req' = p.r
    /\ bufLen' = Grown
    /\ last' = [op |-> "RequestFromReader", data |-> BufSlice(filled, 0, idx),
                before |-> req, n |-> p.n, err |-> p.err, calls |-> p.calls]
    /\ IF p.err # "nil"
       THEN /\ buf' = filled
            /\ readToIdx' = idx
            /\ consumed' = consumed
            /\ pc' = "return"
            /\ ret' = [isNil |-> TRUE, err |-> p.err]
       ELSE /\ buf' = IF p.n > 0 THEN Compact(filled, p.n, idx) ELSE filled
            /\ readToIdx' = IF p.n > 0 THEN idx - p.n ELSE idx
            /\ consumed' = consumed \o BufSlice(filled, 0, p.n)
            /\ pc' = IF p.r.state = StateDone THEN "return" ELSE "loop"
            /\ ret' = IF p.r.state = StateDone
                      THEN [isNil |-> FALSE, err |-> "nil"] ELSE ret

ParseRead(bytes) ==
    Let(BufCopy(GrownBuf, readToIdx, bytes), LAMBDA filled :
        AfterRead(filled, readToIdx + Len(bytes),
                  parse(req, BufSlice(filled, 0, readToIdx + Len(bytes)))))

\* Read returns n > 0 bytes and no error
ReadChunk(k) ==
    /\ pc = "loop"
    /\ reader.pos < Len(reader.data)
    /\ Let(ReadBytes(k, Grown - readToIdx), LAMBDA bytes :
           /\ reader' = [reader EXCEPT !.pos = @ + Len(bytes)]
           /\ ParseRead(bytes))
    /\ UNCHANGED <<ncalls, hist, sessions>>

\* io.EOF before StateDone returned as an error
ReadEOF_unexpected ==
    /\ pc = "loop"
    /\ reader.pos >= Len(reader.data)
    /\ reader.atEnd = "io.EOF"
    /\ bufLen' = Grown
    /\ pc' = "return"
    /\ ret' = [isNil |-> TRUE, err |-> "io.ErrUnexpectedEOF"]
    /\ UNCHANGED <<reader, buf, readToIdx, req, consumed, last, ncalls, hist,
                   sessions>>

\* io.EOF before StateDone answered with a fresh Request
ReadEOF_fresh ==
    /\ pc = "loop"
    /\ reader.pos >= Len(reader.data)
    /\ reader.atEnd = "io.EOF"
    /\ bufLen' = Grown
    /\ pc' = "return"
    /\ ret' = [isNil |-> FALSE, err |-> "nil"]
    /\ req' = NewRequest
    /\ UNCHANGED <<reader, buf, readToIdx, consumed, last, ncalls, hist,
                   sessions>>

\* Read returns io.EOF: the loop is left and the Request returned as it is
ReadEOF ==
    /\ pc = "loop"
    /\ reader.pos >= Len(reader.data)
    /\ reader.atEnd = "io.EOF"
    /\ bufLen' = Grown
    /\ pc' = "return"
    /\ ret' = [isNil |-> FALSE, err |-> "nil"]
    /\ UNCHANGED <<reader, buf, readToIdx, req, consumed, last, ncalls, hist,
                   sessions>>

\* Read returns another error: it is returned with a nil Request
ReadError ==
    /\ pc = "loop"
    /\ reader.pos >= Len(reader.data)
    /\ reader.atEnd # "io.EOF"
    /\ bufLen' = Grown
    /\ pc' = "return"
    /\ ret' = [isNil |-> TRUE, err |-> reader.atEnd]
    /\ UNCHANGED <<reader, buf, readToIdx, req, consumed, last, ncalls, hist,
                   sessions>>

Next ==
    \/ \E k \in 1..MaxRead : ReadChunk(k)
    \/ ReadEOF
    \/ ReadError

Spec == Init /\ [][Next]_vars

(***************************************************************************)
(* The parser driven directly: a caller in package request calls           *)
(* parseSingle and parse on one Request with buffers of its choice.        *)
(***************************************************************************)
\* "A / HTTP/1.1\r\nContent-Length: 2\r\n\r\na\r\n"
callMessage == lineOK \o hdrCL(<<50>>) \o CRLF \o BodyOf(3)

\* where the buffers of the caller are cut out of callMessage: around every
\* CR and LF, inside the request line, inside the body
callCuts ==
    {0, 2, Len(lineOK) - 2, Len(lineOK) - 1, Len(lineOK)}
    \cup {Len(lineOK) + Len(hdrCL(<<50>>)) + d : d \in -2..5}

CallBuffers ==
    {Slice(callMessage, ab[1], ab[2]) : ab \in {x \in callCuts \X callCuts : x[1] <= x[2]}}
    \cup {lineShort, hdrNoColon, hdrHV, hdrCL(<<120>>)}

InitParser ==
    /\ reader = [data |-> <<>>, pos |-> 0, atEnd |-> "io.EOF"]
    /\ buf = <<>>
    /\ bufLen = bufferSize
    /\ readToIdx = 0
    /\ req = NewRequest
    /\ pc = "caller"
    /\ ret = NoRet
    /\ consumed = <<>>
    /\ last = NoOp
    /\ ncalls = 0
    /\ hist = NoHist
    /\ sessions = NoSessions

Called(op, data, s, calls) ==
    /\ req' = s.r
    /\ last' = [op |-> op, data |-> data, before |-> req, n |-> s.n,
                err |-> s.err, calls |-> calls]
    /\ ncalls' = ncalls + 1
    /\ UNCHANGED <<reader, buf, bufLen, readToIdx, pc, ret, consumed, hist,
                   sessions>>

\* r.parseSingle(data)
CallParseSingle(data) ==
    /\ pc = "caller"
    /\ ncalls < MaxCalls
    /\ Let(parseSingle(req, data), LAMBDA s :
           Called("parseSingle", data, s,
                  <<[before |-> req, data |-> data, n |-> s.n, err |-> s.err,
                     after |-> s.r]>>))

\* r.parse(data)
CallParse(data) ==
    /\ pc = "caller"
    /\ ncalls < MaxCalls
    /\ Let(parse(req, data), LAMBDA s : Called("parse", data, s, s.calls))

NextParser ==
    \/ \E data \in CallBuffers : CallParseSingle(data)
    \/ \E data \in CallBuffers : CallParse(data)

SpecParser == InitParser /\ [][NextParser]_vars

(***************************************************************************)
(* The header map driven directly: a caller of package headers calls Set   *)
(* and Parse on one Headers value. The inputs are tables that say, next to *)
(* the bytes, what they mean: hist is kept from the tables, not from what  *)
(* the calls compute.                                                      *)
(***************************************************************************)
\* the largest number of Set and Parse calls on one header map
MaxHeaderCalls == 3

\* the keys given to Set, each with its name in lower case: "h", "H", "aB"
HeaderKeys ==
    {[key |-> <<104>>, lower |-> <<104>>],
     [key |-> <<72>>, lower |-> <<104>>],
     [key |-> <<97, 66>>, lower |-> <<97, 98>>]}

\* the values given to Set: "a", "b", ""
HeaderValues == {<<97>>, <<98>>, <<>>}

\* the buffers given to Parse. kind "line": the buffer begins with the valid
\* field line `line`, which sets `name` to `value`; "error": its first line is
\* rejected with `err`; "more": it holds no CRLF; "done": it begins with CRLF;
\* "tabbed": its first line has a tab before the colon, and Parse takes it
\* for a field line that sets `name` to `value`
ParseInputs ==
    {
     \* H: a:b\r\nk: b\r\n
     [data |-> <<72, 58, 32, 97, 58, 98, 13, 10, 107, 58, 32, 98, 13, 10>>,
      kind |-> "line", line |-> <<72, 58, 32, 97, 58, 98>>, name |-> <<104>>, value |-> <<97, 58, 98>>, err |-> "nil"],
     \*   h:  b  \r\n
     [data |-> <<32, 32, 104, 58, 32, 32, 98, 32, 32, 13, 10>>,
      kind |-> "line", line |-> <<32, 32, 104, 58, 32, 32, 98, 32, 32>>, name |-> <<104>>, value |-> <<98>>, err |-> "nil"],
     \* aB:\r\n
     [data |-> <<97, 66, 58, 13, 10>>,
      kind |-> "line", line |-> <<97, 66, 58>>, name |-> <<97, 98>>, value |-> <<>>, err |-> "nil"],
     \* k: a\r\n\r\n
     [data |-> <<107, 58, 32, 97, 13, 10, 13, 10>>,
      kind |-> "line", line |-> <<107, 58, 32, 97>>, name |-> <<107>>, value |-> <<97>>, err |-> "nil"],
     \* x\r\nh: a\r\n
     [data |-> <<120, 13, 10, 104, 58, 32, 97, 13, 10>>,
      kind |-> "error", line |-> <<>>, name |-> <<>>, value |-> <<>>, err |-> "malformed header"],
     \* h : a\r\n
     [data |-> <<104, 32, 58, 32, 97, 13, 10>>,
      kind |-> "error", line |-> <<>>, name |-> <<>>, value |-> <<>>, err |-> "invalid spacing: space before colon"],
     \* : a\r\n
     [data |-> <<58, 32, 97, 13, 10>>,
      kind |-> "error", line |-> <<>>, name |-> <<>>, value |-> <<>>, err |-> "field name cannot be empty"],
     \* h@: a\r\n
     [data |-> <<104, 64, 58, 32, 97, 13, 10>>,
      kind |-> "error", line |-> <<>>, name |-> <<>>, value |-> <<>>, err |-> "invalid character in field name"],
     \* H\xc2\xa9: a\r\n (a name with the two bytes of U+00A9)
     [data |-> <<72, 194, 169, 58, 32, 97, 13, 10>>,
      kind |-> "error", line |-> <<>>, name |-> <<>>, value |-> <<>>, err |-> "invalid character in field name"],
     \* h: a
     [data |-> <<104, 58, 32, 97>>,
      kind |-> "more", line |-> <<>>, name |-> <<>>, value |-> <<>>, err |-> "nil"],
     \* h: a\r
     [data |-> <<104, 58, 32, 97, 13>>,
      kind |-> "more", line |-> <<>>, name |-> <<>>, value |-> <<>>, err |-> "nil"],
     \* 
     [data |-> <<>>,
      kind |-> "more", line |-> <<>>, name |-> <<>>, value |-> <<>>, err |-> "nil"],
     \* \r\n
     [data |-> <<13, 10>>,
      kind |-> "done", line |-> <<>>, name |-> <<>>, value |-> <<>>, err |-> "nil"],
     \* \r\nh: a\r\n
     [data |-> <<13, 10, 104, 58, 32, 97, 13, 10>>,
      kind |-> "done", line |-> <<>>, name |-> <<>>, value |-> <<>>, err |-> "nil"],
     \* h\t: a\r\n
     [data |-> <<104, 9, 58, 32, 97, 13, 10>>,
      kind |-> "tabbed", line |-> <<104, 9, 58, 32, 97>>, name |-> <<104>>, value |-> <<97>>, err |-> "nil"],
     \* X-1~: a\r\n
     [data |-> <<88, 45, 49, 126, 58, 32, 97, 13, 10>>,
      kind |-> "line", line |-> <<88, 45, 49, 126, 58, 32, 97>>, name |-> <<120, 45, 49, 126>>, value |-> <<97>>, err |-> "nil"],
     \* a b: v\r\n
     [data |-> <<97, 32, 98, 58, 32, 118, 13, 10>>,
      kind |-> "error", line |-> <<>>, name |-> <<>>, value |-> <<>>, err |-> "invalid character in field name"]
    }

InitHeaders ==
    /\ reader = [data |-> <<>>, pos |-> 0, atEnd |-> "io.EOF"]
    /\ buf = <<>>
    /\ bufLen = bufferSize
    /\ readToIdx = 0
    /\ req = NewRequest
    /\ pc = "headers"
    /\ ret = NoRet
    /\ consumed = <<>>
    /\ last = NoOp
    /\ ncalls = 0
    /\ hist = NoHist
    /\ sessions = NoSessions

\* hist with value recorded as the next value of name
Recorded(name, value) ==
    IF name \in DOMAIN hist
    THEN [hist EXCEPT ![name] = Append(@, value)]
    ELSE [x \in DOMAIN hist \cup {name} |-> IF x = name THEN <<value>> ELSE hist[x]]

\* h.Set(key, value)
CallSet(k, value) ==
    /\ pc = "headers"
    /\ ncalls < MaxHeaderCalls
    /\ req' = [req EXCEPT !.Headers = Set(req.Headers, k.key, value)]
    /\ last' = [op |-> "Headers.Set", data |-> k.key, before |-> req, n |-> 0,
                err |-> "nil", calls |-> <<>>, done |-> FALSE, value |-> value]
    /\ hist' = Recorded(k.lower, value)
    /\ ncalls' = ncalls + 1
    /\ UNCHANGED <<reader, buf, bufLen, readToIdx, pc, ret, consumed, sessions>>

\* h.Parse(data)
CallHeadersParse(in) ==
    /\ pc = "headers"
    /\ ncalls < MaxHeaderCalls
    /\ Let(HeadersParse(req.Headers, in.data), LAMBDA p :
           /\ req' = [req EXCEPT !.Headers = p.h]
           /\ last' = [op |-> "Headers.Parse", data |-> in.data, before |-> req,
                       n |-> p.n, err |-> p.err, calls |-> <<>>, done |-> p.done,
                       in |-> in])
    /\ hist' = IF in.kind \in {"line", "tabbed"}
               THEN Recorded(in.name, in.value) ELSE hist
    /\ ncalls' = ncalls + 1
    /\ UNCHANGED <<reader, buf, bufLen, readToIdx, pc, ret, consumed, sessions>>

NextHeaders ==
    \/ \E k \in HeaderKeys : \E value \in HeaderValues : CallSet(k, value)
    \/ \E in \in ParseInputs : CallHeadersParse(in)

SpecHeaders == InitHeaders /\ [][NextHeaders]_vars

(***************************************************************************)
(* The request line: a fresh parser is given one buffer. The buffers are   *)
(* built from a method, a target and a version, so that what a buffer      *)
(* means is known from its parts and not from what the parser computes.    *)
(***************************************************************************)
\* the methods that are valid: "A", "A-B", "-"
ValidMethodInputs ==
    {
     <<65>>,
     <<65, 45, 66>>,
     <<45>>
    }

\* methods that are not: "", "a", "A1", "G$"
InvalidMethodInputs ==
    {
     <<>>,
     <<97>>,
     <<65, 49>>,
     <<71, 36>>
    }

\* the targets: "/", one with a query, the empty one
TargetInputs ==
    {
     <<47>>,
     <<47, 115, 63, 113, 61, 49, 38, 108, 61, 50>>,
     <<>>
    }

\* the version fields, each with what it is: "ok", "format" (not two parts
\* around one "/", or the first part is not HTTP), "unsupported" (HTTP/ and a
\* version other than 1.1)
VersionInputs ==
    {
     [text |-> <<72, 84, 84, 80, 47, 49, 46, 49>>, class |-> "ok"],
     [text |-> <<72, 84, 84, 80, 47, 49, 46, 48>>, class |-> "unsupported"],
     [text |-> <<72, 84, 84, 80, 47, 50, 46, 48>>, class |-> "unsupported"],
     [text |-> <<72, 84, 84, 80, 47>>, class |-> "unsupported"],
     [text |-> <<72, 84, 84, 80, 49, 46, 49>>, class |-> "format"],
     [text |-> <<72, 84, 84, 80, 83, 47, 49, 46, 49>>, class |-> "format"],
     [text |-> <<104, 116, 116, 112, 47, 49, 46, 49>>, class |-> "format"],
     [text |-> <<72, 84, 84, 80, 47, 49, 46, 49, 47>>, class |-> "format"],
     [text |-> <<47, 49, 46, 49>>, class |-> "format"],
     [text |-> <<>>, class |-> "format"]
    }

\* what follows the CRLF of the line in the buffer: nothing, a header line,
\* a blank line
TailInputs == {<<>>, hdrHV, CRLF}

\* complete lines that do not split on single spaces into three fields
OtherLineInputs ==
    {
     <<65, 32, 47>>,
     <<65>>,
     <<>>,
     <<65, 32, 47, 32, 72, 84, 84, 80, 47, 49, 46, 49, 32, 88>>,
     <<65, 32, 32, 47, 32, 72, 84, 84, 80, 47, 49, 46, 49>>,
     <<65, 32, 47, 32, 72, 84, 84, 80, 47, 49, 46, 49, 32>>,
     <<32, 65, 32, 47, 32, 72, 84, 84, 80, 47, 49, 46, 49>>
    }

\* buffers without a CRLF
IncompleteLineInputs ==
    {
     <<65, 32, 47, 32, 72, 84, 84, 80, 47, 49, 46, 49>>,
     <<65, 32, 47, 32, 72, 84, 84, 80, 47, 49, 46, 49, 13>>
    }

\* kind "three": METHOD SP TARGET SP VERSION CRLF and a tail; "other": a
\* line of OtherLineInputs, CRLF and a tail; "more": no CRLF
RequestLineInputs ==
    {[kind |-> "three", method |-> m, target |-> t, version |-> v.text,
      class |-> v.class, line |-> m \o <<SP>> \o t \o <<SP>> \o v.text,
      data |-> m \o <<SP>> \o t \o <<SP>> \o v.text \o CRLF \o tail] :
         m \in ValidMethodInputs \cup InvalidMethodInputs, t \in TargetInputs,
         v \in VersionInputs, tail \in TailInputs}
    \cup {[kind |-> "other", method |-> <<>>, target |-> <<>>, version |-> <<>>,
           class |-> "none", line |-> l, data |-> l \o CRLF \o tail] :
              l \in OtherLineInputs, tail \in TailInputs}
    \cup {[kind |-> "more", method |-> <<>>, target |-> <<>>, version |-> <<>>,
           class |-> "none", line |-> <<>>, data |-> d] : d \in IncompleteLineInputs}

InitRequestLine ==
    /\ reader = [data |-> <<>>, pos |-> 0, atEnd |-> "io.EOF"]
    /\ buf = <<>>
    /\ bufLen = bufferSize
    /\ readToIdx = 0
    /\ req = NewRequest
    /\ pc = "line"
    /\ ret = NoRet
    /\ consumed = <<>>
    /\ last = NoOp
    /\ ncalls = 0
    /\ hist = NoHist
    /\ sessions = NoSessions

\* r.parseSingle(data) on the fresh Request: parseRequestLine(data), whose
\* return is kept in last.line, and what parseSingle makes of it
CallParseRequestLine(in) ==
    /\ pc = "line"
    /\ Let(parseSingle(req, in.data), LAMBDA s :
           /\ req' = s.r
           /\ last' = [op |-> "parseRequestLine", data |-> in.data, before |-> req,
                       n |-> s.n, err |-> s.err,
                       calls |-> <<[before |-> req, data |-> in.data, n |-> s.n,
                                    err |-> s.err, after |-> s.r]>>,
                       line |-> parseRequestLine(in.data), in |-> in])
    /\ pc' = "parsed"
    /\ ncalls' = ncalls + 1
    /\ UNCHANGED <<reader, buf, bufLen, readToIdx, ret, consumed, hist,
                   sessions>>

NextRequestLine == \E in \in RequestLineInputs : CallParseRequestLine(in)

SpecRequestLine == InitRequestLine /\ [][NextRequestLine]_vars

(***************************************************************************)
(* Properties.                                                             *)
(***************************************************************************)
(***************************************************************************)
(* RequestFromReader on any io.Reader. Besides the reads of the first      *)
(* specification, Read may return no byte and no error, and it may return  *)
(* its last bytes together with io.EOF or with another error.              *)
(***************************************************************************)
\* the reads that return (0, nil) a source makes at most
MaxIdle == 1

SourceMessages ==
    {lineOK \o CRLF \o BodyOf(1),
     lineOK \o hdrHV \o hdrCL(Dec(2)) \o CRLF \o BodyOf(MaxBody),
     lineOK \o hdrNoColon \o CRLF,
     lineShort \o CRLF}

SourceStreams == UNION {{SubSeq(m, 1, k) : k \in 0..Len(m)} : m \in SourceMessages}

InitSource ==
    /\ reader \in [data : SourceStreams, pos : {0}, atEnd : {"io.EOF", "error"},
                   idle : {0}]
    /\ buf = <<>>
    /\ bufLen = bufferSize
    /\ readToIdx = 0
    /\ req = NewRequest
    /\ pc = "loop"
    /\ ret = NoRet
    /\ consumed = <<>>
    /\ last = NoOp
    /\ ncalls = 0
    /\ hist = NoHist
    /\ sessions = NoSessions

\* Read returns (0, nil): readToIdx stays, parse is called on buf[:readToIdx]
ReadNothing ==
    /\ pc = "loop"
    /\ reader.idle < MaxIdle
    /\ reader' = [reader EXCEPT !.idle = @ + 1]
    /\ ParseRead(<<>>)
    /\ UNCHANGED <<ncalls, hist, sessions>>

\* Read returns the n > 0 bytes the source has left and, in the same call,
\* io.EOF or another error: the bytes are in buf[readToIdx:], the loop is
\* left before readToIdx += n and before parse
ReadLast(k) ==
    /\ pc = "loop"
    /\ reader.pos < Len(reader.data)
    /\ Len(reader.data) - reader.pos <= Min({k, Grown - readToIdx})
    /\ Let(ReadBytes(k, Grown - readToIdx), LAMBDA bytes :
           /\ reader' = [reader EXCEPT !.pos = @ + Len(bytes)]
           /\ buf' = BufCopy(GrownBuf, readToIdx, bytes))
    /\ bufLen' = Grown
    /\ pc' = "return"
    /\ ret' = IF reader.atEnd = "io.EOF" THEN [isNil |-> FALSE, err |-> "nil"]
              ELSE [isNil |-> TRUE, err |-> reader.atEnd]
    /\ UNCHANGED <<readToIdx, req, consumed, last, ncalls, hist, sessions>>

NextSource ==
    \/ \E k \in 1..MaxRead : ReadChunk(k)
    \/ ReadNothing
    \/ \E k \in 1..MaxRead : ReadLast(k)
    \/ ReadEOF
    \/ ReadError

SpecSource == InitSource /\ [][NextSource]_vars

\* Every iteration of the loop of RequestFromReader comes to its end: the
\* goroutine that called RequestFromReader keeps running and Read returns.
\* This is WF_vars(NextSource) with ENABLED <<NextSource>>_vars written out:
\* at the top of the loop a Read is always possible and every iteration
\* changes the state, after the return no step is.
SpecSourceLive ==
    SpecSource /\ ([]<>(pc # "loop") \/ []<><<NextSource>>_vars)

(***************************************************************************)
(* RequestFromReader on streams with a line longer than the buffer: the    *)
(* buffer fills up before the line ends and is doubled. The reads are      *)
(* large, as a connection or a file delivers them.                         *)
(***************************************************************************)
\* the longest line is longer than bufferSize * MaxGrow bytes
MaxGrow == 2

\* "A /aa...a HTTP/1.1\r\n" with a target of n bytes
lineLong(n) ==
    <<65, 32>> \o [i \in 1..n |-> IF i = 1 THEN SLASH ELSE 97]
    \o <<32>> \o strHTTP \o <<SLASH>> \o str11 \o CRLF

\* "h: vv...v\r\n" with a value of n bytes
hdrLong(n) == <<104, COLON, SP>> \o [i \in 1..n |-> 118] \o CRLF

BufferMessages ==
    {lineLong(bufferSize * g) \o CRLF : g \in 1..MaxGrow}
    \cup {lineOK \o hdrLong(bufferSize * g) \o hdrCL(Dec(1)) \o CRLF \o BodyOf(1) :
              g \in 1..MaxGrow}

\* the messages whole, cut where the buffer is exactly full, and cut one
\* byte before the end
BufferStreams ==
    UNION {{m, SubSeq(m, 1, Len(m) - 1)}
           \cup {SubSeq(m, 1, Min({Len(m), bufferSize * g})) : g \in 1..MaxGrow} :
           m \in BufferMessages}

\* how many bytes Read returns at most: a quarter of the first buffer, a
\* little more than half of it, and more than any buffer holds
BufferReads == {bufferSize \div 4, bufferSize \div 2 + 1, bufferSize * 16}

InitBuffer ==
    /\ reader \in [data : BufferStreams, pos : {0}, atEnd : {"io.EOF", "error"}]
    /\ buf = <<>>
    /\ bufLen = bufferSize
    /\ readToIdx = 0
    /\ req = NewRequest
    /\ pc = "loop"
    /\ ret = NoRet
    /\ consumed = <<>>
    /\ last = NoOp
    /\ ncalls = 0
    /\ hist = NoHist
    /\ sessions = NoSessions

NextBuffer ==
    \/ \E k \in BufferReads : ReadChunk(k)
    \/ ReadEOF
    \/ ReadError

SpecBuffer == InitBuffer /\ [][NextBuffer]_vars

(***************************************************************************)
(* Two RequestFromReader calls under way at once, each on its own source.  *)
(* The variables reader .. last are the locals of the call that is running *)
(* (sessions.id); the locals of the other call are in sessions.other. A    *)
(* header map is an object on the heap sessions.maps, reached through its  *)
(* address: a Request holds the address NewHeaders returned. The map of    *)
(* the running call is kept in req.Headers and written to the heap when    *)
(* the other call takes over.                                              *)
(***************************************************************************)
\* NewHeaders returning the map it made first, to every caller
NewHeadersAt_shared(maps) == 1

\* headers.NewHeaders: the address of the map it makes, a new one
NewHeadersAt(maps) == Len(maps) + 1

\* the heap once NewHeaders has made its map at address a
Allocated(maps, a) == IF a > Len(maps) THEN Append(maps, NewHeaders) ELSE maps

SessionMessages ==
    {lineOK \o hdrHV \o CRLF,
     lineOK \o hdrHV \o hdrCL(Dec(1)) \o CRLF \o BodyOf(2),
     lineOK \o hdrNoColon \o CRLF}

\* the messages, and the first of them without its blank line
SessionStreams == SessionMessages \cup {lineOK \o hdrHV}

\* chunkReader: numBytesPerRead bytes a read, io.EOF at the end of the data
SessionReaders ==
    [data : SessionStreams, pos : {0}, atEnd : {"io.EOF"},
     numBytesPerRead : {1, MaxRead}]

\* the locals of one RequestFromReader call at its start
SessionStart(i, a, r) ==
    [id |-> i, hdr |-> a, reader |-> r, buf |-> <<>>, bufLen |-> bufferSize,
     readToIdx |-> 0, req |-> NewRequest, pc |-> "loop", ret |-> NoRet,
     consumed |-> <<>>, last |-> NoOp]

InitSessions ==
    /\ reader \in SessionReaders
    /\ buf = <<>>
    /\ bufLen = bufferSize
    /\ readToIdx = 0
    /\ req = NewRequest
    /\ pc = "loop"
    /\ ret = NoRet
    /\ consumed = <<>>
    /\ last = NoOp
    /\ ncalls = 0
    /\ hist = NoHist
    /\ Let(NewHeadersAt(<<>>), LAMBDA a1 :
       Let(Allocated(<<>>, a1), LAMBDA maps1 :
       Let(NewHeadersAt(maps1), LAMBDA a2 :
           sessions \in [id : {1}, hdr : {a1}, maps : {Allocated(maps1, a2)},
                         other : {SessionStart(2, a2, r) : r \in SessionReaders}])))

\* the call that is running is suspended and the other call goes on: the
\* header map of the one goes to the heap, that of the other is read from it
Switch ==
    Let([sessions.maps EXCEPT ![sessions.hdr] = req.Headers], LAMBDA maps :
        /\ sessions' =
               [id |-> sessions.other.id, hdr |-> sessions.other.hdr, maps |-> maps,
                other |-> [id |-> sessions.id, hdr |-> sessions.hdr,
                           reader |-> reader, buf |-> buf, bufLen |-> bufLen,
                           readToIdx |-> readToIdx, req |-> req, pc |-> pc,
                           ret |-> ret, consumed |-> consumed, last |-> last]]
        /\ reader' = sessions.other.reader
        /\ buf' = sessions.other.buf
        /\ bufLen' = sessions.other.bufLen
        /\ readToIdx' = sessions.other.readToIdx
        /\ req' = [sessions.other.req EXCEPT !.Headers = maps[sessions.other.hdr]]
        /\ pc' = sessions.other.pc
        /\ ret' = sessions.other.ret
        /\ consumed' = sessions.other.consumed
        /\ last' = sessions.other.last
        /\ UNCHANGED <<ncalls, hist>>)

NextSessions ==
    \/ ReadChunk(reader.numBytesPerRead)
    \/ ReadEOF
    \/ Switch

SpecSessions == InitSessions /\ [][NextSessions]_vars

\* the buffer holds no complete CRLF
NoCRLF(d) == ~\E i \in 1..(Len(d) - 1) : d[i] = 13 /\ d[i + 1] = 10

\* the stream of the source is the request line, the header section hs, the
\* blank line and the bytes body
StreamIs(hs, body) == reader.data = lineOK \o hs \o CRLF \o body

\* the header sections that declare Content-Length n, once
SectionsDeclaring(n) == {hdrCL(Dec(n)), hdrHV \o hdrCL(Dec(n))}

\* the header sections without a Content-Length header
SectionsWithout == {<<>>, hdrHV}

Success == [isNil |-> FALSE, err |-> "nil"]

\* C1: every parseSingle call, made directly or by parse, leaves the state
\* where it was or moves it one step forward along Initialized, Headers,
\* Body, Done; a parse call passes through the states one step at a time.
C1_ForwardOnly ==
    [][LET c == last'.calls
           st == <<req.state>> \o [i \in 1..Len(c) |-> c[i].after.state]
       IN  /\ \A i \in 1..Len(c) : c[i].before.state = st[i]
           /\ \A i \in 1..Len(c) : st[i + 1] = st[i] \/ st[i + 1] = st[i] + 1
           /\ \A i \in 1..Len(st) : st[i] \in StateInitialized..StateDone
           /\ req'.state = st[Len(st)]]_vars

\* one parse call has taken the parser from Initialized to Done
C1_Witness ==
    /\ last.op = "parse"
    /\ last.before.state = StateInitialized
    /\ req.state = StateDone
    /\ Len(last.calls) >= 3

\* C2: RequestFromReader returns, for every chunking of a stream into reads,
\* what it returns when the whole stream arrives in one read: the same error
\* or success and, on success, the same Request.
WholeRead ==
    Let(parse(NewRequest, reader.data), LAMBDA p :
        IF p.err # "nil" THEN [ret |-> [isNil |-> TRUE, err |-> p.err], req |-> p.r]
        ELSE IF p.r.state = StateDone \/ reader.atEnd = "io.EOF"
        THEN [ret |-> Success, req |-> p.r]
        ELSE [ret |-> [isNil |-> TRUE, err |-> reader.atEnd], req |-> p.r])

C2_ChunkingInvariant ==
    pc = "return" =>
        /\ ret = WholeRead.ret
        /\ ~ret.isNil => req = WholeRead.req

\* C3: at the top of the loop the bytes consumed so far followed by
\* buf[0:readToIdx] are the bytes the source has delivered, in order; and the
\* slice the last iteration handed to parse was what had been delivered and
\* not consumed before it.
C3_BufferAccounting ==
    pc = "loop" =>
        /\ readToIdx >= 0 /\ readToIdx <= bufLen
        /\ consumed \o BufSlice(buf, 0, readToIdx) = Delivered
        /\ last.op = "RequestFromReader" =>
               SubSeq(consumed, 1, Len(consumed) - last.n) \o last.data = Delivered

\* an iteration consumed a line and left bytes of the next one in the buffer
C3_Witness ==
    /\ pc = "loop"
    /\ last.op = "RequestFromReader"
    /\ last.n > 0
    /\ readToIdx > 0
    /\ Len(consumed) > last.n

\* C4: a parseSingle call in Initialized or Headers on a buffer without a
\* complete CRLF returns (0, nil) and leaves the Request as it was, and
\* Headers.Parse on that buffer returns (0, false, nil) and the map unchanged.
C4_NoCompleteLine ==
    \A i \in 1..Len(last.calls) :
        LET c == last.calls[i]
        IN  (c.before.state \in {StateInitialized, StateHeaders} /\ NoCRLF(c.data)) =>
                /\ c.n = 0
                /\ c.err = "nil"
                /\ c.after = c.before
                /\ HeadersParse(c.before.Headers, c.data)
                       = [n |-> 0, done |-> FALSE, err |-> "nil", h |-> c.before.Headers]

\* parseSingle was called in Headers with a buffer that ends with a lone CR
C4_Witness ==
    /\ last.op = "parseSingle"
    /\ last.before.state = StateHeaders
    /\ last.data # <<>>
    /\ last.data[Len(last.data)] = 13
    /\ NoCRLF(last.data)

\* C5: a stream that declares Content-Length n > 0 and carries exactly n
\* body bytes ends, however it is cut into reads, with no error, with those n
\* bytes as the Body and with the parser in Done.
C5_ExactBody ==
    \A n \in 1..MaxBody : \A hs \in SectionsDeclaring(n) :
        (pc = "return" /\ StreamIs(hs, BodyOf(n))) =>
            /\ ret = Success
            /\ req.Body = [isNil |-> FALSE, b |-> BodyOf(n)]
            /\ req.state = StateDone

\* such a stream was parsed to the end, its last body byte arriving alone
C5_Witness ==
    /\ pc = "return"
    /\ last.n = 1
    /\ \E n \in 2..MaxBody : \E hs \in SectionsDeclaring(n) : StreamIs(hs, BodyOf(n))

\* C6: with Content-Length: 0 the Body is present and empty, without a
\* Content-Length header it is nil.
C6_EmptyVsAbsent ==
    (pc = "return" /\ ret = Success) =>
        /\ StreamIs(hdrCL(<<48>>), <<>>) => req.Body = [isNil |-> FALSE, b |-> <<>>]
        /\ StreamIs(<<>>, <<>>) => req.Body = NilBytes

\* C7: when the source signals io.EOF after fewer body bytes than the
\* declared Content-Length, RequestFromReader returns no error, the Body is
\* the bytes received and the state is Body.
C7_ShortBody ==
    \A n \in 1..MaxBody : \A hs \in SectionsDeclaring(n) : \A m \in 0..(n - 1) :
        (pc = "return" /\ reader.atEnd = "io.EOF" /\ StreamIs(hs, BodyOf(m))) =>
            /\ ret = Success
            /\ req.Body.b = BodyOf(m)
            /\ req.state = StateBody

\* a stream ended one byte short of its declared body
C7_Witness ==
    /\ pc = "return"
    /\ reader.atEnd = "io.EOF"
    /\ \E n \in 2..MaxBody : \E hs \in SectionsDeclaring(n) : StreamIs(hs, BodyOf(n - 1))

\* C8: when the header section ends without a Content-Length header, the
\* parseSingle call in Body consumes nothing, returns no error and moves to
\* Done; RequestFromReader returns the Request with a nil Body having
\* consumed the stream up to the blank line, whatever follows it.
C8_NoContentLength ==
    /\ \A i \in 1..Len(last.calls) :
           LET c == last.calls[i]
           IN  (c.before.state = StateBody
                    /\ strContentLength \notin DOMAIN c.before.Headers) =>
                   /\ c.n = 0
                   /\ c.err = "nil"
                   /\ c.after = [c.before EXCEPT !.state = StateDone]
    /\ \A hs \in SectionsWithout : \A m \in 0..MaxBody :
           (pc = "return" /\ StreamIs(hs, BodyOf(m))) =>
               /\ ret = Success
               /\ req.Body = NilBytes
               /\ req.state = StateDone
               /\ consumed = lineOK \o hs \o CRLF

\* a stream without Content-Length was parsed, with bytes after its blank line
C8_Witness ==
    /\ pc = "return"
    /\ StreamIs(hdrHV, BodyOf(MaxBody))
    /\ MaxBody > 0

\* C9: a parseSingle call in Done returns (0, ErrParserDone) on any buffer
\* and leaves the state Done.
C9_DoneErrors ==
    \A i \in 1..Len(last.calls) :
        LET c == last.calls[i]
        IN  c.before.state = StateDone =>
                /\ c.n = 0
                /\ c.err = "ErrParserDone"
                /\ c.after.state = StateDone

\* parseSingle was called in Done with a buffer that holds bytes
C9_Witness ==
    /\ last.op = "parseSingle"
    /\ last.before.state = StateDone
    /\ last.data # <<>>

\* C10: a parse call made in Done returns ErrParserDone.
C10_ParseAfterDone ==
    (last.op = "parse" /\ last.before.state = StateDone) => last.err = "ErrParserDone"

\* C11: when parse returns an error (of the request line, of a header line
\* or of the Content-Length), it is the error of the last parseSingle call
\* made, RequestFromReader returns it with a nil Request, the bytes from the
\* failing line on stay unconsumed, and the source is not read again.
C11_ErrorAborts ==
    [][/\ last'.err # "nil" =>
              /\ last'.op = "RequestFromReader"
              /\ pc' = "return"
              /\ ret' = [isNil |-> TRUE, err |-> last'.err]
              /\ last'.calls # <<>>
              /\ last'.calls[Len(last'.calls)].err = last'.err
              /\ \A i \in 1..(Len(last'.calls) - 1) : last'.calls[i].err = "nil"
              /\ consumed' = consumed
       /\ last.err # "nil" => reader' = reader]_vars

\* a malformed header line made RequestFromReader return while the source
\* still had bytes to deliver
C11_Witness ==
    /\ pc = "return"
    /\ last.err = "malformed header"
    /\ ret = [isNil |-> TRUE, err |-> "malformed header"]
    /\ reader.pos < Len(reader.data)
    /\ Len(consumed) >= Len(lineOK)

\* p is the beginning of s
IsPrefix(p, s) == Len(p) <= Len(s) /\ SubSeq(s, 1, Len(p)) = p

\* s begins with lo and is the beginning of hi
Between(lo, s, hi) == IsPrefix(lo, s) /\ IsPrefix(s, hi)

\* the request line of lineOK, parsed
lineOKParsed == [Method |-> <<65>>, RequestTarget |-> <<SLASH>>, HttpVersion |-> str11]

\* C12: when the source signals io.EOF before the parser is in Done and
\* parse has returned no error, RequestFromReader returns the Request and a
\* nil error; the Request holds the request line and every complete header
\* line the source delivered, and nothing of an incomplete line.
C12_PartialAtEOF ==
    (pc = "return" /\ reader.atEnd = "io.EOF" /\ last.err = "nil"
         /\ req.state # StateDone) =>
        /\ ret = Success
        /\ Delivered = reader.data
        /\ IF IsPrefix(lineOK, reader.data)
           THEN req.RequestLine = lineOKParsed /\ req.state # StateInitialized
           ELSE req = NewRequest
        /\ \A n \in 1..MaxBody :
               /\ Between(lineOK \o hdrCL(Dec(n)), reader.data,
                          lineOK \o hdrCL(Dec(n)) \o CRLF \o BodyOf(MaxBody)) =>
                      req.Headers = [k \in {strContentLength} |-> Dec(n)]
               /\ Between(lineOK \o hdrHV \o hdrCL(Dec(n)), reader.data,
                          lineOK \o hdrHV \o hdrCL(Dec(n)) \o CRLF \o BodyOf(MaxBody)) =>
                      req.Headers = [k \in {<<104>>, strContentLength} |->
                                        IF k = <<104>> THEN <<118>> ELSE Dec(n)]
               /\ (IsPrefix(lineOK \o hdrHV, reader.data)
                      /\ ~IsPrefix(lineOK \o hdrHV \o hdrCL(Dec(n)), reader.data)
                      /\ IsPrefix(reader.data, lineOK \o hdrHV \o hdrCL(Dec(n)))) =>
                      req.Headers = [k \in {<<104>>} |-> <<118>>]
        /\ (IsPrefix(reader.data, lineOK \o hdrHV) /\ reader.data # lineOK \o hdrHV) =>
               req.Headers = NewHeaders

\* the source ran dry after a complete header line and half of the next
C12_Witness ==
    /\ pc = "return"
    /\ ret = Success
    /\ req.state = StateHeaders
    /\ req.Headers = [k \in {<<104>>} |-> <<118>>]
    /\ \E k \in 1..5 : reader.data = lineOK \o hdrHV \o SubSeq(hdrCL(<<50>>), 1, k)

\* the stream carries the request line, the header section hs and the blank
\* line, and the source has delivered them
HeadersDelivered(hs) ==
    /\ IsPrefix(lineOK \o hs \o CRLF, reader.data)
    /\ reader.pos >= Len(lineOK \o hs \o CRLF)

\* C13: a request with two or more Content-Length lines is rejected with
\* ErrMultipleContentLength by the first parseSingle call in Body, whatever
\* the values of the lines are.
C13_MultipleContentLength ==
    \A hs \in MultipleSections :
        /\ IsPrefix(lineOK \o hs, reader.data) =>
               \A i \in 1..Len(last.calls) :
                   last.calls[i].before.state = StateBody =>
                       /\ last.calls[i].err = "ErrMultipleContentLength"
                       /\ last.calls[i].n = 0
                       /\ last.calls[i].after.state = StateBody
        /\ HeadersDelivered(hs) =>
               /\ pc = "return"
               /\ ret = [isNil |-> TRUE, err |-> "ErrMultipleContentLength"]

\* two Content-Length lines with different values and names in different
\* case were rejected
C13_Witness ==
    /\ pc = "return"
    /\ HeadersDelivered(hdrCLlower(<<50>>) \o hdrCL(<<49>>))
    /\ last.err = "ErrMultipleContentLength"
    /\ req.Headers[strContentLength] = <<50, COMMA, SP, 49>>

\* the errors that wrap ErrInvalidContentLength
InvalidContentLengthErrors ==
    {"ErrInvalidContentLength", "ErrInvalidContentLength: negative value"}

\* C14: a request whose one Content-Length line has a value that is no
\* non-negative integer ("x", "-1", "1x", the empty value) is rejected with
\* ErrInvalidContentLength and its parser never reaches Done.
C14_InvalidRejected ==
    \A hs \in InvalidSections :
        /\ IsPrefix(lineOK \o hs, reader.data) => req.state # StateDone
        /\ HeadersDelivered(hs) =>
               /\ pc = "return"
               /\ ret.isNil
               /\ ret.err \in InvalidContentLengthErrors

\* C15: a declared Content-Length of MaxContentLength is accepted (the
\* parser stays in Body and takes body bytes), every larger one is rejected
\* with ErrContentLengthTooLarge.
C15_TooLarge ==
    \A v \in LargeValues :
        HeadersDelivered(hdrCL(v)) =>
            IF v = Text(Digits(MaxContentLength))
            THEN /\ last.err = "nil"
                 /\ req.state = StateBody
                 /\ req.Body.b = SubSeq(Delivered, Len(lineOK \o hdrCL(v) \o CRLF) + 1,
                                        Len(Delivered))
            ELSE /\ pc = "return"
                 /\ ret = [isNil |-> TRUE, err |-> "ErrContentLengthTooLarge"]

\* the values vs joined with ", "
RECURSIVE JoinValues(_)
JoinValues(vs) ==
    IF Len(vs) = 1 THEN vs[1]
    ELSE JoinValues(SubSeq(vs, 1, Len(vs) - 1)) \o <<COMMA, SP>> \o vs[Len(vs)]

\* C16: the header map holds exactly the names that were set, and Get of a
\* name, in any letter case, is the values set for it (by Set or by a parsed
\* field line), in the order they were set, joined with ", ".
C16_JoinedInOrder ==
    /\ DOMAIN req.Headers = DOMAIN hist
    /\ \A k \in HeaderKeys :
           Get(req.Headers, k.key) =
               IF k.lower \in DOMAIN hist THEN JoinValues(hist[k.lower]) ELSE <<>>

\* one name was set three times, by Set and by Parse, in different letter
\* cases and with different values
C16_Witness ==
    /\ <<104>> \in DOMAIN hist
    /\ Len(hist[<<104>>]) = 3
    /\ hist[<<104>>][1] # hist[<<104>>][2]
    /\ hist[<<104>>][2] # hist[<<104>>][3]
    /\ last.op = "Headers.Parse"
    /\ last.before.Headers # NewHeaders
    /\ req.Headers[<<104>>] = JoinValues(hist[<<104>>])
    /\ Len(req.Headers[<<104>>]) >= 7

\* the names of the inputs in lower case, each with its letter-case
\* variants: h H, ab Ab aB AB, k K
NameVariants ==
    {[lower |-> <<104>>, variants |-> {<<104>>, <<72>>}],
     [lower |-> <<97, 98>>,
      variants |-> {<<97, 98>>, <<65, 98>>, <<97, 66>>, <<65, 66>>}],
     [lower |-> <<107>>, variants |-> {<<107>>, <<75>>}]}

\* C17: no key of the header map holds an upper-case letter, and Get
\* returns for every letter-case variant of a name the value stored for it.
C17_CaseInsensitive ==
    /\ \A key \in DOMAIN req.Headers : \A i \in 1..Len(key) : key[i] \notin 65..90
    /\ \A nv \in NameVariants : \A name \in nv.variants :
           Get(req.Headers, name) =
               IF nv.lower \in DOMAIN req.Headers THEN req.Headers[nv.lower] ELSE <<>>

\* "aB" was given to Set and "H" read by Parse, each with a value that is
\* not empty
C17_Witness ==
    /\ last.op = "Headers.Set"
    /\ last.data = <<97, 66>>
    /\ last.value # <<>>
    /\ DOMAIN req.Headers = {<<97, 98>>, <<104>>}
    /\ req.Headers[<<104>>] = <<97, COLON, 98>>

\* C18: Parse on a buffer that begins with a valid field line of L > 0
\* bytes and its CRLF consumes L + 2 bytes, whatever follows, returns
\* done = false and no error, and stores the value (the bytes after the first
\* colon, trimmed) under the name (the bytes before it, trimmed, in lower
\* case), joined to the value the name had; the other entries stay.
C18_OneFieldLine ==
    (last.op = "Headers.Parse" /\ last.in.kind = "line") =>
        /\ Len(last.in.line) > 0
        /\ IsPrefix(last.in.line \o CRLF, last.data)
        /\ NoCRLF(last.in.line)
        /\ last.n = Len(last.in.line) + 2
        /\ last.done = FALSE
        /\ last.err = "nil"
        /\ DOMAIN req.Headers = DOMAIN last.before.Headers \cup {last.in.name}
        /\ \A key \in DOMAIN req.Headers :
               req.Headers[key] =
                   IF key # last.in.name THEN last.before.Headers[key]
                   ELSE IF key \in DOMAIN last.before.Headers
                   THEN last.before.Headers[key] \o <<COMMA, SP>> \o last.in.value
                   ELSE last.in.value

\* Parse read "H: a:b" from a buffer that holds another line after it, into
\* a map that had a value for h
C18_Witness ==
    /\ last.op = "Headers.Parse"
    /\ last.in.name = <<104>>
    /\ last.in.value = <<97, COLON, 98>>
    /\ Len(last.data) > last.n
    /\ last.n = 8
    /\ <<104>> \in DOMAIN last.before.Headers
    /\ req.Headers[<<104>>] = last.before.Headers[<<104>>] \o <<COMMA, SP, 97, COLON, 98>>

\* C19: Parse on a buffer that begins with CRLF returns (2, true, nil) and
\* leaves the header map as it was, whatever follows the CRLF.
C19_BlankLine ==
    (last.op = "Headers.Parse" /\ IsPrefix(CRLF, last.data)) =>
        /\ last.n = 2
        /\ last.done = TRUE
        /\ last.err = "nil"
        /\ req.Headers = last.before.Headers

\* Parse was given CRLF followed by a field line, on a map that held entries
C19_Witness ==
    /\ last.op = "Headers.Parse"
    /\ IsPrefix(CRLF, last.data)
    /\ Len(last.data) > 2
    /\ last.before.Headers # NewHeaders
    /\ last.done

\* C20: when Parse returns an error (no colon, a space before the colon, an
\* empty field name, a byte in the name that is no token character) it
\* returns 0 bytes consumed and done = false and leaves the header map as it
\* was; every line of the input table that is to be rejected is rejected
\* with its error.
C20_ErrorLeavesMap ==
    last.op = "Headers.Parse" =>
        /\ last.err # "nil" =>
               /\ last.n = 0
               /\ last.done = FALSE
               /\ req.Headers = last.before.Headers
        /\ last.in.kind = "error" <=> last.err # "nil"
        /\ last.err = last.in.err

\* Parse rejected a name with a byte outside the token characters, on a
\* map that held entries
C20_Witness ==
    /\ last.op = "Headers.Parse"
    /\ last.err = "invalid character in field name"
    /\ \E i \in 1..Len(last.data) : last.data[i] > 127
    /\ last.before.Headers # NewHeaders
    /\ req.Headers = last.before.Headers

\* the first line of a buffer that holds a CRLF
FirstLine(data) == Slice(data, 0, Index(data, CRLF))

\* the line holds a colon and the byte just before its first colon is b
ByteBeforeColon(line, b) ==
    /\ Index(line, <<COLON>>) > 0
    /\ line[Index(line, <<COLON>>)] = b

\* C21: Parse rejects with the invalid-spacing error every line in which a
\* white space character (a space or a tab) is just before the first colon.
C21_SpaceBeforeColon ==
    (last.op = "Headers.Parse" /\ Index(last.data, CRLF) > 0
         /\ \E b \in {SP, 9} : ByteBeforeColon(FirstLine(last.data), b)) =>
        /\ last.err = "invalid spacing: space before colon"
        /\ req.Headers = last.before.Headers

\* the token characters: ALPHA, DIGIT and ! # $ % & ' * + - . ^ _ ` | ~
TokenBytes ==
    (65..90) \cup (97..122) \cup (48..57)
    \cup {33, 35, 36, 37, 38, 39, 42, 43, 45, 46, 94, 95, 96, 124, 126}

IsToken(name) == name # <<>> /\ \A i \in 1..Len(name) : name[i] \in TokenBytes

\* the errors of validateFieldName
InvalidFieldNameErrors ==
    {"field name cannot be empty", "invalid character in field name"}

C23_RequestLineParsed ==
    (last.op = "parseRequestLine" /\ last.in.kind = "three"
         /\ last.in.method \in ValidMethodInputs /\ last.in.class = "ok") =>
        /\ last.line.err = "nil"
        /\ last.line.rl = [Method |-> last.in.method, RequestTarget |-> last.in.target,
                           HttpVersion |-> <<49, 46, 49>>]
        /\ last.line.n = Len(last.in.line) + 2
        /\ last.n = Len(last.in.line) + 2
        /\ last.err = "nil"
        /\ req = [last.before EXCEPT !.RequestLine = last.line.rl, !.state = StateHeaders]

\* a line with a method with a hyphen and a target with a query was parsed
\* out of a buffer that holds a header line after it
C23_Witness ==
    /\ last.op = "parseRequestLine"
    /\ req.state = StateHeaders
    /\ req.RequestLine.Method = <<65, HYPHEN, 66>>
    /\ Len(req.RequestLine.RequestTarget) > 1
    /\ Len(last.data) > last.n

\* C24: a complete line that does not split on single spaces into three
\* fields is rejected with ErrMalformedReqLine and 0 bytes consumed, and
\* the parser stays in Initialized with the Request as it was.
C24_NotThreeFields ==
    (last.op = "parseRequestLine" /\ last.in.kind = "other") =>
        /\ last.line = [rl |-> ZeroRequestLine, n |-> 0, err |-> "ErrMalformedReqLine"]
        /\ last.err = "ErrMalformedReqLine"
        /\ last.n = 0
        /\ req = last.before
        /\ req.state = StateInitialized

\* a line with two spaces in a row was rejected
C24_Witness ==
    /\ last.op = "parseRequestLine"
    /\ last.err = "ErrMalformedReqLine"
    /\ \E i \in 1..(Len(last.in.line) - 1) :
           last.in.line[i] = SP /\ last.in.line[i + 1] = SP

\* C25: a three-field line whose method is empty or holds a byte other than
\* A-Z and "-" is rejected with ErrInvalidMethod, whatever its version
\* field is; a line whose method is valid is never rejected with it.
C25_MethodValidated ==
    (last.op = "parseRequestLine" /\ last.in.kind = "three") =>
        IF last.in.method \in ValidMethodInputs
        THEN /\ last.line.err # "ErrInvalidMethod"
             /\ last.in.class = "ok" => last.err = "nil"
        ELSE /\ last.line.err = "ErrInvalidMethod"
             /\ last.err = "ErrInvalidMethod"
             /\ last.n = 0
             /\ req = last.before

\* a line with a lower-case method and the version HTTP/1.1 was rejected
C25_Witness ==
    /\ last.op = "parseRequestLine"
    /\ last.in.kind = "three"
    /\ last.in.method = <<97>>
    /\ last.in.class = "ok"
    /\ last.err = "ErrInvalidMethod"

\* C26: for a three-field line with a valid method the version field
\* decides: ErrInvalidHttpFormat when it is not two parts around one "/" or
\* its first part is not HTTP, ErrUnsupportedHttpVer when it is HTTP/ and a
\* version other than 1.1, no error for HTTP/1.1 only.
C26_VersionClassified ==
    (last.op = "parseRequestLine" /\ last.in.kind = "three"
         /\ last.in.method \in ValidMethodInputs) =>
        /\ last.line.err =
               CASE last.in.class = "ok" -> "nil"
                 [] last.in.class = "format" -> "ErrInvalidHttpFormat"
                 [] last.in.class = "unsupported" -> "ErrUnsupportedHttpVer"
        /\ last.err = last.line.err
        /\ last.in.class # "ok" => last.n = 0 /\ req = last.before

\* the version HTTP/1.0 was rejected as unsupported
C26_Witness ==
    /\ last.op = "parseRequestLine"
    /\ last.in.version = <<72, 84, 84, 80, 47, 49, 46, 48>>
    /\ last.in.method \in ValidMethodInputs
    /\ last.err = "ErrUnsupportedHttpVer"

\* C27: once the source has delivered a request line and the blank line
\* right after it, the parser has gone from Headers to Body on the blank
\* line with no header stored, and from Body to Done consuming nothing;
\* RequestFromReader returns the Request with no error, whatever follows.
C27_EmptyHeaderSection ==
    (IsPrefix(lineOK \o CRLF, reader.data) /\ reader.pos >= Len(lineOK \o CRLF)) =>
        /\ pc = "return"
        /\ ret = Success
        /\ req.state = StateDone
        /\ req.Headers = NewHeaders
        /\ req.Body = NilBytes
        /\ req.RequestLine = lineOKParsed
        /\ \E i \in 1..(Len(last.calls) - 1) :
               /\ last.calls[i].before.state = StateHeaders
               /\ last.calls[i].n = 2
               /\ last.calls[i].err = "nil"
               /\ last.calls[i].after.state = StateBody
               /\ last.calls[i].after.Headers = NewHeaders
               /\ last.calls[i + 1].before.state = StateBody
               /\ last.calls[i + 1].n = 0
               /\ last.calls[i + 1].err = "nil"
               /\ last.calls[i + 1].after.state = StateDone

\* the stream was the request line and the blank line, nothing else
C27_Witness ==
    /\ pc = "return"
    /\ reader.data = lineOK \o CRLF
    /\ reader.pos = Len(reader.data)
    /\ req.state = StateDone
    /\ ret = Success

\* C28: when parse(data) returns n and no error and leaves the parser short
\* of Done, n is between 0 and len(data) and data[n:] holds no complete
\* unit: no CRLF in Initialized and in Headers, no byte in Body.
C28_NoCompleteUnitLeft ==
    (last.op = "parse" /\ last.err = "nil" /\ req.state # StateDone) =>
        /\ last.n >= 0
        /\ last.n <= Len(last.data)
        /\ req.state \in {StateInitialized, StateHeaders} =>
               NoCRLF(SliceFrom(last.data, last.n))
        /\ req.state = StateBody => SliceFrom(last.data, last.n) = <<>>

\* parse consumed the request line and a header line and left the CR of the
\* blank line
C28_Witness ==
    /\ last.op = "parse"
    /\ last.err = "nil"
    /\ last.before.state = StateInitialized
    /\ req.state = StateHeaders
    /\ Len(last.calls) = 3
    /\ SliceFrom(last.data, last.n) = <<13>>

\* the Request r of a stream that declares Content-Length n keeps its Body
\* within n bytes, and has all n bytes in Done
BodyWithin(r, n) ==
    /\ Len(r.Body.b) <= n
    /\ (r.state = StateDone /\ n > 0) => r.Body = [isNil |-> FALSE, b |-> BodyOf(n)]

\* C29: as long as parse has returned no error, the Body is nil in
\* Initialized and in Headers, it is never longer than the declared
\* Content-Length, and in Done it is exactly as long, after every
\* parseSingle call that returned no error.
C29_BodyWithinLength ==
    last.err = "nil" =>
        /\ req.state \in {StateInitialized, StateHeaders} => req.Body = NilBytes
        /\ \A i \in 1..Len(last.calls) :
               last.calls[i].after.state \in {StateInitialized, StateHeaders} =>
                   last.calls[i].after.Body = NilBytes
        /\ \A n \in 1..MaxBody : \A hs \in SectionsDeclaring(n) :
               IsPrefix(lineOK \o hs \o CRLF, reader.data) =>
                   /\ BodyWithin(req, n)
                   /\ \A i \in 1..Len(last.calls) : BodyWithin(last.calls[i].after, n)
        /\ \A hs \in SectionsWithout :
               IsPrefix(lineOK \o hs \o CRLF, reader.data) => req.Body = NilBytes

\* a stream with more body bytes than it declares was read up to the
\* declared length, and the parser is in Done
C29_Witness ==
    /\ req.state = StateDone
    /\ last.err = "nil"
    /\ Len(req.Body.b) = 2
    /\ StreamIs(hdrCL(<<50>>), BodyOf(3))

C31_HeadersFrozen ==
    [][/\ req.state \in {StateBody, StateDone} => req'.Headers = req.Headers
       /\ \A i \in 1..Len(last'.calls) :
              last'.calls[i].before.state \in {StateBody, StateDone} =>
                  /\ last'.calls[i].after.Headers = last'.calls[i].before.Headers
                  /\ req'.Headers = last'.calls[i].before.Headers]_vars

\* a buffer holding a field line was given to parseSingle in Body, with
\* headers stored before
C31_Witness ==
    /\ last.op = "parseSingle"
    /\ last.before.state = StateBody
    /\ last.before.Headers # NewHeaders
    /\ last.data = hdrHV
    /\ req.Headers = last.before.Headers

\* C32: the RequestLine is the zero value whenever the parser is in
\* Initialized; the parseSingle call that leaves Initialized goes to Headers
\* and stores the parsed request line, which is not the zero value; a
\* parseSingle call that stays in Initialized, and every parse or parseSingle
\* call made in a later state, leaves the RequestLine as it was.
C32_RequestLineOnce ==
    /\ [](req.state = StateInitialized => req.RequestLine = ZeroRequestLine)
    /\ [][/\ req.state # StateInitialized => req'.RequestLine = req.RequestLine
          /\ \A i \in 1..Len(last'.calls) :
                 Let(last'.calls[i], LAMBDA c :
                     /\ c.before.state # StateInitialized =>
                            c.after.RequestLine = c.before.RequestLine
                     /\ c.after.state = StateInitialized =>
                            c.after.RequestLine = ZeroRequestLine
                     /\ (c.before.state = StateInitialized
                         /\ c.after.state # StateInitialized) =>
                            /\ c.after.state = StateHeaders
                            /\ c.before.RequestLine = ZeroRequestLine
                            /\ c.after.RequestLine = lineOKParsed
                            /\ c.after.RequestLine # ZeroRequestLine)]_vars

\* the first call parsed the request line; the second call, made in
\* Headers, went on to a later state and the request line is still there
C32_Witness ==
    /\ ncalls = 2
    /\ last.before.state = StateHeaders
    /\ last.before.RequestLine = lineOKParsed
    /\ req.state \in {StateBody, StateDone}
    /\ req.RequestLine = lineOKParsed

\* C37: a parseSingle call that returns an error, made directly or by parse,
\* leaves the Request's state, RequestLine, header collection and Body as
\* they were before the call.
C37_ErrorLeavesRequest ==
    \A i \in 1..Len(last.calls) :
        last.calls[i].err # "nil" => last.calls[i].after = last.calls[i].before

\* C35: whenever the parser is in Done, RequestFromReader has returned the
\* Request with no error; no step reads from the source or calls parse
\* after that, parse has made no parseSingle call in Done, and the bytes
\* the source still holds and the bytes left in the buffer stay where they
\* are.
C35_StopsAtDone ==
    /\ [](req.state = StateDone =>
              /\ pc = "return"
              /\ ret = Success
              /\ \A i \in 1..Len(last.calls) : last.calls[i].before.state # StateDone)
    /\ [][req.state = StateDone =>
              UNCHANGED <<reader, buf, readToIdx, req, ret, consumed, last>>]_vars

\* the parser is in Done with bytes of the stream left in the buffer and
\* in a source that would return an error at its end
C35_Witness ==
    /\ req.state = StateDone
    /\ pc = "return"
    /\ StreamIs(hdrHV, BodyOf(MaxBody))
    /\ readToIdx > 0
    /\ reader.pos < Len(reader.data)
    /\ reader.atEnd = "error"

\* C33: in RequestFromReader len(buf) is bufferSize * 2^k and a step leaves
\* it as it is or doubles it; readToIdx is between 0 and len(buf); at the
\* top of the loop the slice buf[readToIdx:] given to Read, after the
\* doubling of a full buffer, is not empty; the doubled buffer holds the
\* bytes buf[0:readToIdx] of the old one, so that as long as parse returned
\* no error the buffer holds the bytes delivered and not yet consumed.
C33_BufferGrows ==
    /\ [](/\ \E k \in 0..(MaxGrow + 1) : bufLen = bufferSize * 2^k
          /\ readToIdx >= 0
          /\ readToIdx <= bufLen
          /\ pc = "loop" => Grown - readToIdx > 0
          /\ BufSlice(GrownBuf, 0, readToIdx) = BufSlice(buf, 0, readToIdx)
          /\ (last.err = "nil" /\ req.state # StateDone) =>
                 BufSlice(buf, 0, readToIdx)
                     = SubSeq(reader.data, Len(consumed) + 1, reader.pos))
    /\ [][/\ bufLen' \in {bufLen, 2 * bufLen}
          /\ bufLen' = 2 * bufLen <=> readToIdx >= bufLen]_vars

\* the buffer was doubled twice before the end of the request line arrived
\* and the request was parsed to its end
C33_Witness ==
    /\ bufLen = bufferSize * 4
    /\ req.state = StateDone
    /\ Len(req.RequestLine.RequestTarget) = bufferSize * 2
    /\ Len(last.data) > bufferSize * 2
    /\ ret = Success

\* C34: RequestFromReader returns, with a Request or with an error, for
\* every source that ends in io.EOF or in an error after finitely many
\* reads, reads of no bytes among them. In every parse call each
\* parseSingle call but the last consumes at least one byte of the slice it
\* is given and the next call is given a shorter slice, so parse makes at
\* most len(data) + 1 calls.
C34_Terminates ==
    /\ <>(pc = "return" /\ ret.err # "none")
    /\ [](/\ Len(last.calls) <= Len(last.data) + 1
          /\ \A i \in 1..Len(last.calls) :
                 /\ last.calls[i].n >= 0
                 /\ last.calls[i].n <= Len(last.calls[i].data)
                 /\ i < Len(last.calls) =>
                        /\ last.calls[i].n > 0
                        /\ last.calls[i].err = "nil"
                        /\ Len(last.calls[i + 1].data) < Len(last.calls[i].data))

\* RequestFromReader has returned a partial request from a source that
\* returned no bytes on one read and io.EOF at its end; the last parse call
\* made three parseSingle calls
C34_Witness ==
    /\ pc = "return"
    /\ ret = Success
    /\ reader.idle = MaxIdle
    /\ reader.pos = Len(reader.data)
    /\ req.state = StateBody
    /\ Len(last.calls) = 3

\* C36: as long as parse has returned no error and the parser is short of
\* Done, the bytes the source has returned are the bytes parse has consumed
\* followed by the bytes in buf[:readToIdx], the rest of what the last
\* parse call was given; this
\* holds when RequestFromReader returns as well, also for bytes returned by
\* the Read call that returned io.EOF.
C36_AllOffered ==
    (last.err = "nil" /\ req.state # StateDone /\ ret.err \in {"none", "nil"}) =>
        /\ Delivered = consumed \o BufSlice(buf, 0, readToIdx)
        /\ BufSlice(buf, 0, readToIdx) = SliceFrom(last.data, last.n)

\* the header map at address a, as the program sees it now
MapAt(a) == IF a = sessions.hdr THEN req.Headers ELSE sessions.maps[a]

\* the locals of session i and the header map its Request points to
SessionView(i) ==
    IF sessions.id = i
    THEN [id |-> i, hdr |-> sessions.hdr, reader |-> reader, buf |-> buf,
          bufLen |-> bufLen, readToIdx |-> readToIdx, req |-> req, pc |-> pc,
          ret |-> ret, consumed |-> consumed, last |-> last]
    ELSE [sessions.other EXCEPT !.req.Headers = MapAt(sessions.other.hdr)]

\* RequestFromReader run by itself on the source src, from its loop on: the
\* Request r, the buffer b of length bytes filled up to idx, the source read
\* up to pos. What it returns: the error, and the Request if there is none.
RECURSIVE RequestFromReaderAlone(_, _, _, _, _, _)
RequestFromReaderAlone(src, r, b, length, idx, pos) ==
    IF r.state = StateDone THEN [ret |-> Success, req |-> r]
    ELSE IF pos >= Len(src.data)
    THEN IF src.atEnd = "io.EOF" THEN [ret |-> Success, req |-> r]
         ELSE [ret |-> [isNil |-> TRUE, err |-> src.atEnd], req |-> NewRequest]
    ELSE Let(IF idx >= length THEN length * 2 ELSE length, LAMBDA grown :
         Let(SubSeq(src.data, pos + 1,
                    pos + Min({src.numBytesPerRead, grown - idx, Len(src.data) - pos})),
             LAMBDA bytes :
         Let(BufCopy(IF idx >= length THEN newBuf(b, length) ELSE b, idx, bytes),
             LAMBDA filled :
         Let(parse(r, BufSlice(filled, 0, idx + Len(bytes))), LAMBDA p :
             IF p.err # "nil"
             THEN [ret |-> [isNil |-> TRUE, err |-> p.err], req |-> NewRequest]
             ELSE RequestFromReaderAlone(
                      src, p.r,
                      IF p.n > 0 THEN Compact(filled, p.n, idx + Len(bytes)) ELSE filled,
                      grown, idx + Len(bytes) - p.n, pos + Len(bytes))))))

\* what the call of session view v has returned
Returned(v) == [ret |-> v.ret, req |-> IF v.ret.isNil THEN NewRequest ELSE v.req]

\* C38: with two RequestFromReader calls interleaved in any order, a call
\* that has returned has returned what RequestFromReader returns when it
\* runs by itself on the same source; and a step of one call, or the
\* change from one call to the other, leaves the source position, buffer,
\* parser state, request line, headers, body and result of the other call
\* as they were.
C38_SessionsIndependent ==
    /\ [](\A i \in {1, 2} :
              SessionView(i).pc = "return" =>
                  Returned(SessionView(i))
                      = RequestFromReaderAlone(
                            [SessionView(i).reader EXCEPT !.pos = 0],
                            NewRequest, <<>>, bufferSize, 0, 0))
    /\ [][\A i \in {1, 2} :
              (sessions.id # i \/ sessions'.id # sessions.id) =>
                  SessionView(i)' = SessionView(i)]_vars

\* both calls have returned a Request with the header h, each from its own
\* source and each with its own headers; the first call is the running one
\* again, so the calls took turns
C38_Witness ==
    /\ SessionView(1).pc = "return"
    /\ SessionView(2).pc = "return"
    /\ SessionView(1).reader.data = lineOK \o hdrHV \o CRLF
    /\ SessionView(2).reader.data = lineOK \o hdrHV \o hdrCL(Dec(1)) \o CRLF \o BodyOf(2)
    /\ SessionView(1).req.state = StateDone
    /\ SessionView(1).req.Headers # SessionView(2).req.Headers
    /\ sessions.id = 1
    /\ SessionView(2).ret = Success

=============================================================================
